---- MODULE Spec2Model ----
(***************************************************************************)
(* Session runtime of the digital twin backend: SimulationManager over the *)
(* InMemorySessionStore, with the WaterTank and RoomTemperature models.    *)
(*                                                                         *)
(* Real numbers are fixed-point integers: a model value v stands for       *)
(* v / Fix.  Wall-clock time is counted in ticks of 1 / TicksPerSecond     *)
(* seconds; time.time() is the tick count and int(time.time()) is the      *)
(* tick count divided (floor) by TicksPerSecond.                           *)
(***************************************************************************)
EXTENDS Integers, Sequences, FiniteSets, TLC

VARIABLES
    sessions,   \* InMemorySessionStore._sessions: key -> (value, ex, expiry)
    registry,   \* SimulationManager._model_registry: name -> class
    clock,      \* time.time(), in ticks
    nextId,     \* number of uuid4() values drawn so far
    created,    \* ids returned by create_session
    access,     \* id -> tick of the last successful look-up or creation
    steps,      \* id -> successful step calls since creation or last reset
    opCount,    \* handler invocations so far
    last,       \* the last handler invocation: its inputs, its outcome, and
                \* what the caller could see when it began (at: the tick,
                \* prev: access[sid], keys: the store's keys, drawn: nextId,
                \* pre: the session's stored model)
    thr         \* the concurrent callers (used by SpecConc only)

vars == <<sessions, registry, clock, nextId, created, access, steps,
          opCount, last, thr>>

----------------------------------------------------------------------------
(* Bounds of the model *)

Fix == 100
TicksPerSecond == 4
MaxSessions == 2
MaxOps == 3
OdeSubsteps == 2

(* Program constants *)

SESSION_TIMEOUT_SECONDS == 30 * 60

DefaultCapacity == 100 * Fix
DefaultInflow == 0
DefaultOutflowCoeff == Fix \div 10
DefaultInitialTemp == 20 * Fix
AmbientTemp == 20 * Fix

TtlTicks == SESSION_TIMEOUT_SECONDS * TicksPerSecond

----------------------------------------------------------------------------
(* Input domains *)

None == "None"

Ids == 1 .. MaxSessions

ModelNames == {"water_tank", "room_temperature", "unregistered_name"}

StepInputs == {<<10 * Fix, Fix>>, <<-5 * Fix, Fix>>, <<10 * Fix, 0>>}

Snap1 == [level |-> 7 * Fix]

CreateParams ==
    { << >>,
      [capacity |-> 50 * Fix],
      [initial_temp |-> 25 * Fix] }

ResetParams ==
    { << >>,
      [capacity |-> 50 * Fix],
      [initial_temp |-> 25 * Fix] }

UpdateParamMaps ==
    { << >>,
      [capacity |-> 50 * Fix],
      [initial_temp |-> 25 * Fix],
      [history |-> <<Snap1, Snap1, Snap1>>],
      [logs |-> << >>] }

Windows == {0, 1}

Offsets == {0, 1, 2}

Instants ==
    { w * TtlTicks + j : w \in Windows, j \in Offsets }

----------------------------------------------------------------------------
(* Fixed-point arithmetic *)

Mul(a, b) == (a * b) \div Fix

Max(a, b) == IF a >= b THEN a ELSE b

Min(a, b) == IF a <= b THEN a ELSE b

KwGet(kwargs, k, default) ==
    IF k \in DOMAIN kwargs THEN kwargs[k] ELSE default

----------------------------------------------------------------------------
(* Serialization: pickle.dumps writes an instance as its class (by
   reference) and its __dict__; pickle.loads makes a new instance of the
   class, without calling __init__, and gives it that __dict__. *)

Dumps(obj) ==
    [class |-> obj.cls, dict |-> [f \in DOMAIN obj \ {"cls"} |-> obj[f]]]

(* Mutant: the instance is rebuilt through __init__, which starts it with
   an empty history and log. *)
Loads_CallsInit(data) ==
    [f \in DOMAIN data.dict \cup {"cls"} |->
        IF f = "cls" THEN data.class
        ELSE IF f \in {"history", "logs"} THEN << >>
        ELSE data.dict[f]]

Loads(data) ==
    [f \in DOMAIN data.dict \cup {"cls"} |->
        IF f = "cls" THEN data.class ELSE data.dict[f]]

----------------------------------------------------------------------------
(* SystemModel: every model starts with an empty history and empty logs. *)

SystemModelInit == [history |-> << >>, logs |-> << >>]

LogStepped(control_input, delta_time) ==
    [event |-> "Stepped", control_input |-> control_input,
     delta_time |-> delta_time]

LogReset == [event |-> "Reset called"]

LogParams(kwargs) == [event |-> "Params updated", kwargs |-> kwargs]

ModelResult(err, model) == [err |-> err, model |-> model]

----------------------------------------------------------------------------
(* WaterTank *)

WaterTankArgs == {"capacity", "inflow", "outflow_coeff"}

(* Mutant: the tank starts full instead of empty. *)
WaterTankInit_StartsFull(params) ==
    LET capacity == KwGet(params, "capacity", DefaultCapacity)
    IN  IF ~(DOMAIN params \subseteq {"capacity", "inflow", "outflow_coeff"})
        THEN ModelResult("TypeError", None)
        ELSE IF capacity <= 0
        THEN ModelResult("ConstructionError", None)
        ELSE ModelResult(None,
                 [cls |-> "WaterTank",
                  capacity |-> capacity,
                  level |-> capacity,
                  inflow |-> KwGet(params, "inflow", DefaultInflow),
                  outflow_coeff |->
                      KwGet(params, "outflow_coeff", DefaultOutflowCoeff),
                  history |-> << >>,
                  logs |-> << >>])

(* Mutant: the capacity is taken as given. *)
WaterTankInit_AnyCapacity(params) ==
    IF ~(DOMAIN params \subseteq {"capacity", "inflow", "outflow_coeff"})
    THEN ModelResult("TypeError", None)
    ELSE ModelResult(None,
             [cls |-> "WaterTank",
              capacity |-> KwGet(params, "capacity", DefaultCapacity),
              level |-> 0,
              inflow |-> KwGet(params, "inflow", DefaultInflow),
              outflow_coeff |->
                  KwGet(params, "outflow_coeff", DefaultOutflowCoeff),
              history |-> << >>,
              logs |-> << >>])

WaterTankInit(params) ==
    LET capacity == KwGet(params, "capacity", DefaultCapacity)
        base == SystemModelInit
    IN  IF ~(DOMAIN params \subseteq WaterTankArgs)
        THEN ModelResult("TypeError", None)
        ELSE IF capacity <= 0
        THEN ModelResult("ConstructionError", None)
        ELSE ModelResult(None,
                 [cls |-> "WaterTank",
                  capacity |-> capacity,
                  level |-> 0,
                  inflow |-> KwGet(params, "inflow", DefaultInflow),
                  outflow_coeff |->
                      KwGet(params, "outflow_coeff", DefaultOutflowCoeff),
                  history |-> base.history,
                  logs |-> base.logs])

WaterTankDynamics(m, level, inflow) ==
    LET outflow == Mul(m.outflow_coeff, Max(0, level))
    IN  inflow - outflow

(* odeint over [0, delta_time]: the integrator is replaced by OdeSubsteps
   explicit Euler steps of the same right-hand side. *)
RECURSIVE Euler(_, _, _, _, _)
Euler(m, level, inflow, h, n) ==
    IF n = 0 THEN level
    ELSE Euler(m, level + Mul(h, WaterTankDynamics(m, level, inflow)),
               inflow, h, n - 1)

Odeint(m, y0, delta_time, inflow) ==
    Euler(m, y0, inflow, delta_time \div OdeSubsteps, OdeSubsteps)

WaterTankGetState(m) == [level |-> m.level]

WaterTankStep(m, control_input, delta_time) ==
    IF delta_time <= 0
    THEN ModelResult("InvalidTimeStep", m)
    ELSE LET new_level == Odeint(m, m.level, delta_time, control_input)
             m1 == [m EXCEPT !.level = Min(Max(0, new_level), m.capacity)]
             m2 == [m1 EXCEPT !.history =
                                  Append(m1.history, WaterTankGetState(m1))]
         IN  ModelResult(None,
                 [m2 EXCEPT !.logs =
                     Append(m2.logs, LogStepped(control_input, delta_time))])

WaterTankReset(m, kwargs) ==
    ModelResult(None,
        [m EXCEPT !.capacity = KwGet(kwargs, "capacity", m.capacity),
                  !.inflow = KwGet(kwargs, "inflow", m.inflow),
                  !.outflow_coeff =
                      KwGet(kwargs, "outflow_coeff", m.outflow_coeff),
                  !.level = 0,
                  !.history = << >>,
                  !.logs = Append(m.logs, LogReset)])

(* hasattr(self, k) holds for every instance attribute, history and logs
   included. *)
WaterTankAttrs ==
    {"capacity", "level", "inflow", "outflow_coeff", "history", "logs"}

WaterTankUpdateParams(m, kwargs) ==
    LET m1 == [f \in DOMAIN m |->
                  IF f \in WaterTankAttrs /\ f \in DOMAIN kwargs
                  THEN kwargs[f] ELSE m[f]]
    IN  ModelResult(None,
            [m1 EXCEPT !.logs = Append(m1.logs, LogParams(kwargs))])

----------------------------------------------------------------------------
(* RoomTemperature *)

RoomTemperatureArgs == {"initial_temp"}

RoomTemperatureInit(params) ==
    LET base == SystemModelInit
    IN  IF ~(DOMAIN params \subseteq RoomTemperatureArgs)
        THEN ModelResult("TypeError", None)
        ELSE ModelResult(None,
                 [cls |-> "RoomTemperature",
                  temp |-> KwGet(params, "initial_temp", DefaultInitialTemp),
                  history |-> base.history,
                  logs |-> base.logs])

RoomTemperatureGetState(m) == [temperature |-> m.temp]

RoomTemperatureStep(m, control_input, delta_time) ==
    LET m1 == [m EXCEPT !.temp =
                   m.temp + Mul(Mul(Fix \div 2, control_input), delta_time)
                          - Mul(Fix \div 10, m.temp - AmbientTemp)]
        m2 == [m1 EXCEPT !.history =
                             Append(m1.history, RoomTemperatureGetState(m1))]
    IN  ModelResult(None,
            [m2 EXCEPT !.logs =
                Append(m2.logs, LogStepped(control_input, delta_time))])

(* Mutant: reset keeps the current temperature when none is supplied. *)
RoomTemperatureReset_KeepTemp(m, kwargs) ==
    ModelResult(None,
        [m EXCEPT !.temp = KwGet(kwargs, "initial_temp", m.temp),
                  !.history = << >>,
                  !.logs = Append(m.logs, LogReset)])

RoomTemperatureReset(m, kwargs) ==
    ModelResult(None,
        [m EXCEPT !.temp = KwGet(kwargs, "initial_temp", DefaultInitialTemp),
                  !.history = << >>,
                  !.logs = Append(m.logs, LogReset)])

RoomTemperatureUpdateParams(m, kwargs) ==
    LET m1 == IF "initial_temp" \in DOMAIN kwargs
              THEN [m EXCEPT !.temp = kwargs["initial_temp"]]
              ELSE m
    IN  ModelResult(None,
            [m1 EXCEPT !.logs = Append(m1.logs, LogParams(kwargs))])

----------------------------------------------------------------------------
(* Dispatch on the model class (Python method resolution) *)

Construct(cls, params) ==
    IF cls = "WaterTank" THEN WaterTankInit(params)
    ELSE RoomTemperatureInit(params)

ModelStep(m, control_input, delta_time) ==
    IF m.cls = "WaterTank" THEN WaterTankStep(m, control_input, delta_time)
    ELSE RoomTemperatureStep(m, control_input, delta_time)

ModelGetState(m) ==
    IF m.cls = "WaterTank" THEN WaterTankGetState(m)
    ELSE RoomTemperatureGetState(m)

ModelReset(m, kwargs) ==
    IF m.cls = "WaterTank" THEN WaterTankReset(m, kwargs)
    ELSE RoomTemperatureReset(m, kwargs)

ModelUpdateParams(m, kwargs) ==
    IF m.cls = "WaterTank" THEN WaterTankUpdateParams(m, kwargs)
    ELSE RoomTemperatureUpdateParams(m, kwargs)

----------------------------------------------------------------------------
(* InMemorySessionStore *)

Restrict(S, D) == [k \in D |-> S[k]]

(* _now(): int(time.time()) *)
StoreNow(t) == t \div TicksPerSecond

(* ex=None, no expiry: None is written as a number no ex or expiry takes. *)
NoExpiry == -1

StoreSet(S, key, value, ex, t) ==
    [k \in DOMAIN S \cup {key} |->
        IF k = key
        THEN [value |-> value, ex |-> ex,
              expiry |-> IF ex = NoExpiry THEN NoExpiry
                         ELSE StoreNow(t) + ex]
        ELSE S[k]]

(* expiry is not None and self._now() > expiry *)
StoreIsExpired(entry, t) ==
    entry.expiry # NoExpiry /\ StoreNow(t) > entry.expiry

(* Mutant: an expired entry is reported absent but left in the map. *)
StoreGet_KeepsExpired(S, key, t) ==
    IF key \notin DOMAIN S
    THEN [found |-> FALSE, value |-> None, sessions |-> S]
    ELSE IF StoreIsExpired(S[key], t)
    THEN [found |-> FALSE, value |-> None, sessions |-> S]
    ELSE [found |-> TRUE, value |-> S[key].value, sessions |-> S]

StoreGet(S, key, t) ==
    IF key \notin DOMAIN S
    THEN [found |-> FALSE, value |-> None, sessions |-> S]
    ELSE IF StoreIsExpired(S[key], t)
    THEN [found |-> FALSE, value |-> None,
          sessions |-> Restrict(S, DOMAIN S \ {key})]
    ELSE [found |-> TRUE, value |-> S[key].value, sessions |-> S]

StoreDelete(S, key) ==
    IF key \in DOMAIN S THEN Restrict(S, DOMAIN S \ {key}) ELSE S

----------------------------------------------------------------------------
(* SimulationManager helpers *)

(* Mutant: the key leaves the session id out. *)
SessionKey_NoId(session_id) == <<"sim_session", 1>>

SessionKey(session_id) == <<"sim_session", session_id>>

(* Mutant: the entry records the model's class instead of the name the
   session was created under. *)
SessionValue_ClassName(model_name, model, t) ==
    [model_name |-> model.cls, pickled_model |-> Dumps(model),
     last_access |-> t]

SessionValue(model_name, model, t) ==
    [model_name |-> model_name, pickled_model |-> Dumps(model),
     last_access |-> t]

(* Mutant: the sweep truncates the clock to whole seconds as the store does. *)
CleanupIsExpired_IntNow(entry, t) ==
    entry.expiry # NoExpiry /\ StoreNow(t) > entry.expiry

(* expiry is not None and now > expiry, with now = time.time(), a float,
   and expiry whole seconds *)
CleanupIsExpired(entry, t) ==
    entry.expiry # NoExpiry /\ t > entry.expiry * TicksPerSecond

(* Mutant: the loop ends after the first entry it deletes. *)
CleanupExpiredSessions_StopsAtFirst(S, t) ==
    LET expired == {k \in DOMAIN S : CleanupIsExpired(S[k], t)}
    IN  IF expired = {} THEN S
        ELSE Restrict(S, DOMAIN S \ {CHOOSE k \in expired : TRUE})

(* Mutant: the sweep is skipped, as it is for the external store. *)
CleanupExpiredSessions_Skipped(S, t) == S

(* The loop over the keys run to its end by one caller. *)
CleanupExpiredSessions(S, t) ==
    LET expired == {k \in DOMAIN S : CleanupIsExpired(S[k], t)}
    IN  Restrict(S, DOMAIN S \ expired)

(* Mutant: the look-up records the access in the stored model's log. *)
GetModel_LogsAccess(S, session_id, t) ==
    LET key == SessionKey(session_id)
        g == StoreGet(S, key, t)
    IN  IF ~g.found
        THEN [err |-> "UnknownSession", model |-> None,
              sessions |-> g.sessions]
        ELSE LET model == Loads(g.value.pickled_model)
                 noted == [model EXCEPT !.logs =
                              Append(model.logs, [event |-> "Accessed"])]
             IN  [err |-> None, model |-> model,
                  sessions |->
                      StoreSet(g.sessions, key,
                               SessionValue(g.value.model_name, noted, t),
                               SESSION_TIMEOUT_SECONDS, t)]

GetModel(S, session_id, t) ==
    LET key == SessionKey(session_id)
        g == StoreGet(S, key, t)
    IN  IF ~g.found
        THEN [err |-> "UnknownSession", model |-> None,
              sessions |-> g.sessions]
        ELSE LET model == Loads(g.value.pickled_model)
             IN  [err |-> None, model |-> model,
                  sessions |->
                      StoreSet(g.sessions, key,
                               SessionValue(g.value.model_name, model, t),
                               SESSION_TIMEOUT_SECONDS, t)]

(* Mutant: one model instance is shared by every session of the store. *)
SaveModel_SharedInstance(S, session_id, model, t) ==
    LET key == SessionKey(session_id)
        g == StoreGet(S, key, t)
    IN  IF ~g.found
        THEN [err |-> "UnknownSession", sessions |-> g.sessions]
        ELSE [err |-> None,
              sessions |->
                  [k \in DOMAIN g.sessions |->
                      [g.sessions[k] EXCEPT !.value.pickled_model =
                                                Dumps(model)]]]

(* Mutant: the entry's access time is refreshed and the pickled model it
   already holds is kept. *)
SaveModel_RefreshOnly(S, session_id, model, t) ==
    LET key == SessionKey(session_id)
        g == StoreGet(S, key, t)
    IN  IF ~g.found
        THEN [err |-> "UnknownSession", sessions |-> g.sessions]
        ELSE [err |-> None,
              sessions |->
                  StoreSet(g.sessions, key,
                           [g.value EXCEPT !.last_access = t],
                           SESSION_TIMEOUT_SECONDS, t)]

SaveModel(S, session_id, model, t) ==
    LET key == SessionKey(session_id)
        g == StoreGet(S, key, t)
    IN  IF ~g.found
        THEN [err |-> "UnknownSession", sessions |-> g.sessions]
        ELSE [err |-> None,
              sessions |->
                  StoreSet(g.sessions, key,
                           SessionValue(g.value.model_name, model, t),
                           SESSION_TIMEOUT_SECONDS, t)]

(* The model a session's entry holds, as get_model would unpickle it. *)
StoredModel(S, session_id) ==
    Loads(S[SessionKey(session_id)].value.pickled_model)

HasSession(S, session_id) == SessionKey(session_id) \in DOMAIN S

----------------------------------------------------------------------------
(* SimulationManager operations, each run to its end by one caller at
   tick t.  The outcome names the error raised (None when the call
   returns), the value returned, the store afterwards and whether the
   look-up found the session. *)

Outcome(status, ret, S, found) ==
    [status |-> status, ret |-> ret, sessions |-> S, found |-> found]

(* Mutant: the identifier is drawn before the registry is consulted. *)
CreateSessionOp_IdFirst(S, reg, n, model_name, params, t) ==
    LET S1 == CleanupExpiredSessions(S, t)
        session_id == n + 1
    IN  IF model_name \notin DOMAIN reg
        THEN [status |-> "UnknownModel", ret |-> None, sessions |-> S1,
              nextId |-> n + 1]
        ELSE LET c == Construct(reg[model_name], params)
             IN  IF c.err # None
                 THEN [status |-> c.err, ret |-> None, sessions |-> S1,
                       nextId |-> n + 1]
                 ELSE [status |-> None, ret |-> session_id,
                       sessions |->
                           StoreSet(S1, SessionKey(session_id),
                                    SessionValue(model_name, c.model, t),
                                    SESSION_TIMEOUT_SECONDS, t),
                       nextId |-> n + 1]

(* Mutant: the identifier is the lowest one with no entry in the store,
   so the identifier of a removed session is given out again. *)
CreateSessionOp_ReusesFreeId(S, reg, n, model_name, params, t) ==
    LET S1 == CleanupExpiredSessions(S, t)
    IN  IF model_name \notin DOMAIN reg
        THEN [status |-> "UnknownModel", ret |-> None, sessions |-> S1,
              nextId |-> n]
        ELSE LET c == Construct(reg[model_name], params)
                 free == {i \in 1 .. (n + 1) : SessionKey(i) \notin DOMAIN S1}
                 session_id == CHOOSE i \in free : \A j \in free : i <= j
             IN  IF c.err # None
                 THEN [status |-> c.err, ret |-> None, sessions |-> S1,
                       nextId |-> n]
                 ELSE [status |-> None, ret |-> session_id,
                       sessions |->
                           StoreSet(S1, SessionKey(session_id),
                                    SessionValue(model_name, c.model, t),
                                    SESSION_TIMEOUT_SECONDS, t),
                       nextId |-> Max(n, session_id)]

CreateSessionOp(S, reg, n, model_name, params, t) ==
    LET S1 == CleanupExpiredSessions(S, t)
    IN  IF model_name \notin DOMAIN reg
        THEN [status |-> "UnknownModel", ret |-> None, sessions |-> S1,
              nextId |-> n]
        ELSE LET c == Construct(reg[model_name], params)
                 session_id == n + 1
             IN  IF c.err # None
                 THEN [status |-> c.err, ret |-> None, sessions |-> S1,
                       nextId |-> n]
                 ELSE [status |-> None, ret |-> session_id,
                       sessions |->
                           StoreSet(S1, SessionKey(session_id),
                                    SessionValue(model_name, c.model, t),
                                    SESSION_TIMEOUT_SECONDS, t),
                       nextId |-> n + 1]

(* Mutant: a failed model call is noted in the model's log and persisted. *)
Mutate_SavesOnError(S, session_id, r, g, t) ==
    IF r.err # None
    THEN LET noted == [r.model EXCEPT !.logs =
                          Append(r.model.logs, [event |-> "Failed"])]
         IN  Outcome(r.err, None,
                     SaveModel(g.sessions, session_id, noted, t).sessions,
                     TRUE)
    ELSE LET sv == SaveModel(g.sessions, session_id, r.model, t)
         IN  IF sv.err # None
             THEN Outcome(sv.err, None, sv.sessions, TRUE)
             ELSE Outcome(None, ModelGetState(r.model), sv.sessions, TRUE)

(* look up, call the model, persist, return model.get_state() *)
Mutate(S, session_id, r, g, t) ==
    IF r.err # None
    THEN Outcome(r.err, None, g.sessions, TRUE)
    ELSE LET sv == SaveModel(g.sessions, session_id, r.model, t)
         IN  IF sv.err # None
             THEN Outcome(sv.err, None, sv.sessions, TRUE)
             ELSE Outcome(None, ModelGetState(r.model), sv.sessions, TRUE)

StepOp(S, session_id, control_input, delta_time, t) ==
    LET g == GetModel(CleanupExpiredSessions(S, t), session_id, t)
    IN  IF g.err # None
        THEN Outcome(g.err, None, g.sessions, FALSE)
        ELSE Mutate(S, session_id,
                    ModelStep(g.model, control_input, delta_time), g, t)

ResetOp(S, session_id, params, t) ==
    LET g == GetModel(CleanupExpiredSessions(S, t), session_id, t)
    IN  IF g.err # None
        THEN Outcome(g.err, None, g.sessions, FALSE)
        ELSE Mutate(S, session_id, ModelReset(g.model, params), g, t)

UpdateParamsOp(S, session_id, params, t) ==
    LET g == GetModel(CleanupExpiredSessions(S, t), session_id, t)
    IN  IF g.err # None
        THEN Outcome(g.err, None, g.sessions, FALSE)
        ELSE Mutate(S, session_id, ModelUpdateParams(g.model, params), g, t)

GetStateOp(S, session_id, t) ==
    LET g == GetModel(CleanupExpiredSessions(S, t), session_id, t)
    IN  IF g.err # None
        THEN Outcome(g.err, None, g.sessions, FALSE)
        ELSE Outcome(None, ModelGetState(g.model), g.sessions, TRUE)

GetHistoryOp(S, session_id, t) ==
    LET g == GetModel(CleanupExpiredSessions(S, t), session_id, t)
    IN  IF g.err # None
        THEN Outcome(g.err, None, g.sessions, FALSE)
        ELSE Outcome(None, g.model.history, g.sessions, TRUE)

GetLogsOp(S, session_id, t) ==
    LET g == GetModel(CleanupExpiredSessions(S, t), session_id, t)
    IN  IF g.err # None
        THEN Outcome(g.err, None, g.sessions, FALSE)
        ELSE Outcome(None, g.model.logs, g.sessions, TRUE)

----------------------------------------------------------------------------
(* The sequential specification: one caller, whole handlers, time passing
   between the calls.  A handler reads the clock several times (the sweep,
   the store's _now(), get_model's now); the readings of one call are taken
   to be the same tick. *)

SessionOps ==
    {"step", "get_state", "get_history", "get_logs", "reset",
     "update_params"}

MutatingOps == {"step", "reset", "update_params"}

NoThreads == << >>

Init ==
    /\ sessions = << >>
    /\ registry = [n \in {"water_tank", "room_temperature"} |->
                      IF n = "water_tank" THEN "WaterTank"
                      ELSE "RoomTemperature"]
    /\ clock = 0
    /\ nextId = 0
    /\ created = {}
    /\ access = [i \in Ids |-> -1]
    /\ steps = [i \in Ids |-> 0]
    /\ opCount = 0
    /\ last = [op |-> "init", sid |-> 0, args |-> << >>, status |-> None,
               ret |-> None, at |-> 0, prev |-> -1, keys |-> {},
               drawn |-> 0, pre |-> None]
    /\ thr = NoThreads

Advance ==
    /\ opCount < MaxOps
    /\ \E t \in Instants : t > clock /\ clock' = t
    /\ UNCHANGED <<sessions, registry, nextId, created, access, steps,
                   opCount, last, thr>>

CreateSession ==
    \E model_name \in ModelNames, params \in CreateParams :
        LET out == CreateSessionOp(sessions, registry, nextId, model_name,
                                   params, clock)
        IN  /\ opCount < MaxOps
            /\ nextId < MaxSessions
            /\ sessions' = out.sessions
            /\ nextId' = out.nextId
            /\ opCount' = opCount + 1
            /\ created' = IF out.status = None
                          THEN created \cup {out.ret} ELSE created
            /\ access' = IF out.status = None
                         THEN [access EXCEPT ![out.ret] = clock] ELSE access
            /\ last' = [op |-> "create_session", sid |-> out.nextId,
                        args |-> <<model_name, params>>,
                        status |-> out.status, ret |-> out.ret,
                        at |-> clock, prev |-> -1,
                        keys |-> DOMAIN sessions, drawn |-> nextId,
                        pre |-> None]
            /\ UNCHANGED <<registry, clock, steps, thr>>

SessionCall(op, session_id, args, out) ==
    /\ opCount < MaxOps
    /\ sessions' = out.sessions
    /\ opCount' = opCount + 1
    /\ access' = IF out.found THEN [access EXCEPT ![session_id] = clock]
                 ELSE access
    /\ steps' = IF out.status # None THEN steps
                ELSE IF op = "step"
                THEN [steps EXCEPT ![session_id] = @ + 1]
                ELSE IF op = "reset"
                THEN [steps EXCEPT ![session_id] = 0]
                ELSE steps
    /\ last' = [op |-> op, sid |-> session_id, args |-> args,
                status |-> out.status, ret |-> out.ret, at |-> clock,
                prev |-> access[session_id],
                keys |-> DOMAIN sessions, drawn |-> nextId,
                pre |-> IF HasSession(sessions, session_id)
                        THEN StoredModel(sessions, session_id) ELSE None]
    /\ UNCHANGED <<registry, clock, nextId, created, thr>>

Step ==
    \E session_id \in Ids, in \in StepInputs :
        SessionCall("step", session_id, in,
                    StepOp(sessions, session_id, in[1], in[2], clock))

GetState ==
    \E session_id \in Ids :
        SessionCall("get_state", session_id, << >>,
                    GetStateOp(sessions, session_id, clock))

GetHistory ==
    \E session_id \in Ids :
        SessionCall("get_history", session_id, << >>,
                    GetHistoryOp(sessions, session_id, clock))

GetLogs ==
    \E session_id \in Ids :
        SessionCall("get_logs", session_id, << >>,
                    GetLogsOp(sessions, session_id, clock))

Reset ==
    \E session_id \in Ids, params \in ResetParams :
        SessionCall("reset", session_id, <<params>>,
                    ResetOp(sessions, session_id, params, clock))

UpdateParams ==
    \E session_id \in Ids, params \in UpdateParamMaps :
        SessionCall("update_params", session_id, <<params>>,
                    UpdateParamsOp(sessions, session_id, params, clock))

Next ==
    \/ Advance
    \/ CreateSession
    \/ Step
    \/ GetState
    \/ GetHistory
    \/ GetLogs
    \/ Reset
    \/ UpdateParams

Spec == Init /\ [][Next]_vars

----------------------------------------------------------------------------
(* C2: an operation invoked strictly later than the session's last
   successful access plus SESSION_TIMEOUT_SECONDS, with no access in
   between, fails with the unknown-session error. *)
C2_ExpiredAfterTimeout ==
    (/\ last.op \in SessionOps
     /\ last.prev >= 0
     /\ last.at > last.prev + TtlTicks)
    => last.status = "UnknownSession"

C2_Witness ==
    /\ last.op \in SessionOps
    /\ last.prev >= 0
    /\ last.at > last.prev + TtlTicks
    /\ SessionKey(last.sid) \in last.keys
    /\ last.status = "UnknownSession"

(* C3: an operation invoked strictly less than SESSION_TIMEOUT_SECONDS
   after the session's last successful access finds the session (it does
   not fail with the unknown-session error), and the expiry window is then
   measured from the new access. *)
C3_LiveWithinTimeout ==
    (/\ last.op \in SessionOps
     /\ last.prev >= 0
     /\ last.at < last.prev + TtlTicks)
    => /\ last.status # "UnknownSession"
       /\ access[last.sid] = last.at

(* C4: an operation on an identifier that create_session never returned
   fails with the unknown-session error and adds no entry to the store. *)
C4_UnknownIdFails ==
    (last.op \in SessionOps /\ last.sid \notin created)
    => /\ last.status = "UnknownSession"
       /\ DOMAIN sessions \subseteq last.keys

C4_Witness ==
    /\ last.op \in SessionOps
    /\ last.sid \notin created
    /\ created # {}
    /\ last.status = "UnknownSession"

(* C5: create_session with an unregistered model name fails with the
   unknown-model error, draws no session identifier and adds no key to the
   store. *)
C5_UnknownModelFails ==
    (last.op = "create_session" /\ last.args[1] \notin DOMAIN registry)
    => /\ last.status = "UnknownModel"
       /\ last.ret = None
       /\ nextId = last.drawn
       /\ DOMAIN sessions \subseteq last.keys

C5_Witness ==
    /\ last.op = "create_session"
    /\ last.args[1] = "unregistered_name"
    /\ last.status = "UnknownModel"
    /\ sessions # << >>

(* C6: the history of every stored session is as long as the number of
   successful step calls on it since its creation or last reset. *)
C6_HistoryCountsSteps ==
    \A i \in created :
        HasSession(sessions, i)
        => Len(StoredModel(sessions, i).history) = steps[i]

(* C7: a successful reset returns and persists the model's default state,
   or the state the override parameters give, and leaves the history
   empty. *)
DefaultState(cls) ==
    IF cls = "WaterTank" THEN [level |-> 0]
    ELSE [temperature |-> 20 * Fix]

ResetState(cls, params) ==
    IF cls = "RoomTemperature" /\ "initial_temp" \in DOMAIN params
    THEN [temperature |-> params["initial_temp"]]
    ELSE DefaultState(cls)

C7_ResetRestoresDefaults ==
    (last.op = "reset" /\ last.status = None)
    => /\ HasSession(sessions, last.sid)
       /\ LET m == StoredModel(sessions, last.sid)
          IN  /\ last.ret = ResetState(m.cls, last.args[1])
              /\ ModelGetState(m) = last.ret
              /\ m.history = << >>

C7_Witness ==
    /\ last.op = "reset"
    /\ last.status = None
    /\ Len(last.pre.history) > 0
    /\ ModelGetState(last.pre) # DefaultState(last.pre.cls)
    /\ StoredModel(sessions, last.sid).history = << >>

(* C8: a successful step, reset or update_params makes the session's log
   exactly one entry longer and leaves the earlier entries as they were. *)
C8_OneLogEntryPerMutation ==
    (last.op \in MutatingOps /\ last.status = None)
    => LET m == StoredModel(sessions, last.sid)
           n == Len(last.pre.logs)
       IN  /\ Len(m.logs) = n + 1
           /\ SubSeq(m.logs, 1, n) = last.pre.logs

(* C9: a step, reset or update_params on one session leaves what
   get_state, get_history and get_logs return for every other session as
   it was. *)
(* What the three read operations return for a session at tick t: each
   sweeps, looks the model up and returns its state, history or logs. *)
ReadView(S, session_id, t) ==
    LET g == GetModel(CleanupExpiredSessions(S, t), session_id, t)
    IN  IF g.err # None
        THEN [status |-> g.err]
        ELSE [status |-> None, state |-> ModelGetState(g.model),
              history |-> g.model.history, logs |-> g.model.logs]

SameView(S1, S2, session_id, t) ==
    LET a == ReadView(S1, session_id, t)
        b == ReadView(S2, session_id, t)
    IN  /\ a.status = b.status
        /\ a.status = None
           => /\ a.state = b.state
              /\ a.history = b.history
              /\ a.logs = b.logs

C9_OtherSessionsUnchanged ==
    [][\A b \in created :
          (/\ opCount' = opCount + 1
           /\ last'.op \in MutatingOps
           /\ last'.sid # b)
          => SameView(sessions, sessions', b, clock)]_vars

C9_Witness ==
    /\ last.op \in MutatingOps
    /\ last.status = None
    /\ StoredModel(sessions, last.sid) # last.pre
    /\ \E b \in created :
          /\ b # last.sid
          /\ GetStateOp(sessions, b, clock).status = None
          /\ StoredModel(sessions, b).cls = last.pre.cls

(* C10: create_session with default construction parameters followed
   immediately by get_state on the returned id succeeds and returns the
   model's default state, and the history is empty. *)
C10_FreshSessionHasDefaultState ==
    [][(/\ last.op = "create_session"
        /\ last.status = None
        /\ DOMAIN last.args[2] = {}
        /\ opCount' = opCount + 1
        /\ clock - last.at <= TicksPerSecond
        /\ last'.op = "get_state"
        /\ last'.sid = last.ret)
       => /\ last'.status = None
          /\ last'.ret = DefaultState(registry[last.args[1]])
          /\ StoredModel(sessions', last.ret).history = << >>]_vars

C10_Witness ==
    /\ opCount = 2
    /\ created = {1}
    /\ last.op = "get_state"
    /\ last.sid = 1
    /\ last.status = None
    /\ last.pre.logs = << >>
    /\ last.ret = DefaultState(last.pre.cls)
    /\ last.pre.cls = "RoomTemperature"

(* C11: a successful get_state, get_history or get_logs at tick t re-writes
   the session's entry with last access t and an expiry derived from t, and
   a read made less than SESSION_TIMEOUT_SECONDS after the session's last
   access finds the session. *)
ReadOps == {"get_state", "get_history", "get_logs"}

C11_ReadRefreshesAndKeepsAlive ==
    (/\ last.op \in ReadOps
     /\ last.prev >= 0
     /\ last.at < last.prev + TtlTicks)
    => /\ last.status = None
       /\ HasSession(sessions, last.sid)
       /\ LET entry == sessions[SessionKey(last.sid)]
          IN  /\ entry.value.last_access = last.at
              /\ entry.expiry = StoreNow(last.at) + SESSION_TIMEOUT_SECONDS

(* C12: get_state, get_history and get_logs leave the stored model and
   model name of every session as they were (a session they remove had
   already expired), and a read repeated with no other call in between
   returns what it returned before. *)
C12_ReadsLeaveModelDataUnchanged ==
    [][(opCount' = opCount + 1 /\ last'.op \in ReadOps)
       => /\ \A b \in Ids :
                LET key == SessionKey(b)
                IN  /\ key \in DOMAIN sessions' => key \in DOMAIN sessions
                    /\ key \in DOMAIN sessions'
                       => /\ StoredModel(sessions', b)
                                = StoredModel(sessions, b)
                          /\ sessions'[key].value.model_name
                                = sessions[key].value.model_name
                    /\ (key \in DOMAIN sessions
                        /\ key \notin DOMAIN sessions')
                       => CleanupIsExpired(sessions[key], clock)
          /\ (/\ last.op = last'.op
              /\ last.sid = last'.sid
              /\ last.status = None
              /\ last'.status = None)
             => last'.ret = last.ret]_vars

C12_Witness ==
    /\ opCount = MaxOps
    /\ last.op = "get_history"
    /\ last.status = None
    /\ Len(last.ret) > 0
    /\ Len(last.pre.logs) > 0

(* C15: a step with delta_time <= 0 on a session that exists fails with
   the invalid-time-step error, whatever the model type. *)
C15_NonPositiveDeltaTimeRejected ==
    (/\ last.op = "step"
     /\ last.args[2] <= 0
     /\ last.status # "UnknownSession")
    => last.status = "InvalidTimeStep"

(* C16: when the model call inside step, reset or update_params raises,
   the session's stored model (state, history, logs) is what it was before
   the call, and what the reads return for every other session is as it
   was. *)
C16_FailedModelCallNotPersisted ==
    [][(/\ opCount' = opCount + 1
        /\ last'.op \in MutatingOps
        /\ last'.status \notin {None, "UnknownSession"})
       => /\ HasSession(sessions, last'.sid)
          /\ HasSession(sessions', last'.sid)
          /\ StoredModel(sessions', last'.sid)
                = StoredModel(sessions, last'.sid)
          /\ \A b \in created \ {last'.sid} :
                SameView(sessions, sessions', b, clock)]_vars

C16_Witness ==
    /\ last.op \in MutatingOps
    /\ last.status = "InvalidTimeStep"
    /\ last.pre.capacity # DefaultCapacity
    /\ StoredModel(sessions, last.sid) = last.pre
    /\ \E b \in created : b # last.sid /\ HasSession(sessions, b)

(* C23: an operation on a session that was created and has expired, its
   entry still in the store when the call begins, ends as the same
   operation on an id that was never created: the same error, nothing
   returned. *)
(* An id no create_session returns within the bounds. *)
NeverCreatedId == MaxSessions + 1

Perform(op, S, session_id, args, t) ==
    IF op = "step" THEN StepOp(S, session_id, args[1], args[2], t)
    ELSE IF op = "reset" THEN ResetOp(S, session_id, args[1], t)
    ELSE IF op = "update_params"
    THEN UpdateParamsOp(S, session_id, args[1], t)
    ELSE IF op = "get_state" THEN GetStateOp(S, session_id, t)
    ELSE IF op = "get_history" THEN GetHistoryOp(S, session_id, t)
    ELSE GetLogsOp(S, session_id, t)

C23_ExpiredLooksNeverCreated ==
    [][(/\ opCount' = opCount + 1
        /\ last'.op \in SessionOps
        /\ last'.sid \in created
        /\ HasSession(sessions, last'.sid)
        /\ clock > access[last'.sid] + TtlTicks)
       => LET twin == Perform(last'.op, sessions, NeverCreatedId,
                              last'.args, clock)
          IN  /\ twin.status = "UnknownSession"
              /\ last'.status = twin.status
              /\ last'.ret = twin.ret]_vars

C23_Witness ==
    /\ last.op \in SessionOps
    /\ last.sid \in created
    /\ SessionKey(last.sid) \in last.keys
    /\ SessionKey(last.sid) \notin DOMAIN sessions
    /\ last.at > last.prev + TtlTicks
    /\ last.status = "UnknownSession"
    /\ last.ret = None

----------------------------------------------------------------------------
(* The concurrent specification: Threads callers, each running one
   SimulationManager.step on the same session, interleaved at the store's
   dictionary operations.  No lock is taken anywhere in step, get_model,
   _save_model, _cleanup_expired_sessions or the store. *)

Threads == {1, 2}

(* The id of the session every caller works on: the first one drawn. *)
SharedId == CHOOSE i \in Ids : \A j \in Ids : i <= j

(* Clock readings of a concurrent run: the last tick at which the first
   entry is live for the sweep, past the sweep's expiry test only, and
   past the store's too. *)
ConcInstants == {TtlTicks, TtlTicks + 1, TtlTicks + TicksPerSecond}

ConcModelNames == {"water_tank", "room_temperature"}

IdleThread ==
    [pc |-> "idle", sid |-> SharedId, phase |-> "lookup",
     control_input |-> 0, delta_time |-> 0, now |-> 0, keys |-> << >>,
     entry |-> None, model |-> None, status |-> None, ret |-> None]

(* list(self._session_store._sessions.keys()): the keys in insertion
   order, which is the order of the session ids. *)
RECURSIVE KeysFrom(_, _)
KeysFrom(S, i) ==
    IF i > MaxSessions THEN << >>
    ELSE IF SessionKey(i) \in DOMAIN S
    THEN <<SessionKey(i)>> \o KeysFrom(S, i + 1)
    ELSE KeysFrom(S, i + 1)

KeysInOrder(S) == KeysFrom(S, 1)

InitConc ==
    /\ registry = [n \in {"water_tank", "room_temperature"} |->
                      IF n = "water_tank" THEN "WaterTank"
                      ELSE "RoomTemperature"]
    /\ clock = 0
    /\ \E model_name \in ConcModelNames :
          sessions = CreateSessionOp(<< >>, registry, 0, model_name, << >>,
                                     0).sessions
    /\ nextId = 1
    /\ created = {SharedId}
    /\ access = [i \in Ids |-> IF i = SharedId THEN 0 ELSE -1]
    /\ steps = [i \in Ids |-> 0]
    /\ opCount = 1
    /\ last = [op |-> "init", sid |-> 0, args |-> << >>, status |-> None,
               ret |-> None, at |-> 0, prev |-> -1, keys |-> {},
               drawn |-> 0, pre |-> None]
    /\ thr = [t \in Threads |-> IdleThread]

ConcFrame ==
    UNCHANGED <<registry, nextId, created, access, steps, opCount, last>>

Raise(t, err) ==
    thr' = [thr EXCEPT ![t].pc = "done", ![t].status = err]

(* The loop of _cleanup_expired_sessions moves to its next key, or the
   call moves on to get_model. *)
SweepNext(t) ==
    LET rest == Tail(thr[t].keys)
    IN  thr' = [thr EXCEPT ![t].keys = rest,
                           ![t].pc = IF rest = << >> THEN "get_read"
                                     ELSE "sweep_read",
                           ![t].phase = "lookup"]

Tick ==
    /\ \E t \in Threads : thr[t].pc # "done"
    /\ \E i \in ConcInstants : i > clock /\ clock' = i
    /\ UNCHANGED <<sessions, thr>>
    /\ ConcFrame

T_Call(t) ==
    /\ thr[t].pc = "idle"
    /\ \E in \in StepInputs :
          thr' = [thr EXCEPT ![t].pc = "sweep_begin",
                             ![t].control_input = in[1],
                             ![t].delta_time = in[2]]
    /\ UNCHANGED <<sessions, clock>>
    /\ ConcFrame

T_SweepBegin(t) ==
    /\ thr[t].pc = "sweep_begin"
    /\ LET keys == KeysInOrder(sessions)
       IN  thr' = [thr EXCEPT ![t].now = clock,
                              ![t].keys = keys,
                              ![t].pc = IF keys = << >> THEN "get_read"
                                        ELSE "sweep_read",
                              ![t].phase = "lookup"]
    /\ UNCHANGED <<sessions, clock>>
    /\ ConcFrame

T_SweepRead(t) ==
    /\ thr[t].pc = "sweep_read"
    /\ LET key == Head(thr[t].keys)
       IN  IF key \in DOMAIN sessions
              /\ CleanupIsExpired(sessions[key], thr[t].now)
           THEN thr' = [thr EXCEPT ![t].pc = "sweep_delete"]
           ELSE SweepNext(t)
    /\ UNCHANGED <<sessions, clock>>
    /\ ConcFrame

T_SweepDelete(t) ==
    /\ thr[t].pc = "sweep_delete"
    /\ sessions' = StoreDelete(sessions, Head(thr[t].keys))
    /\ SweepNext(t)
    /\ UNCHANGED clock
    /\ ConcFrame

(* InMemorySessionStore.get up to its expiry test, for get_model
   (phase "lookup") and for _save_model (phase "save") *)
T_GetRead(t) ==
    /\ thr[t].pc = "get_read"
    /\ LET key == SessionKey(thr[t].sid)
       IN  IF key \notin DOMAIN sessions
           THEN Raise(t, "UnknownSession")
           ELSE IF StoreIsExpired(sessions[key], clock)
           THEN thr' = [thr EXCEPT ![t].pc = "get_del"]
           ELSE thr' = [thr EXCEPT ![t].entry = sessions[key].value,
                                   ![t].pc = IF thr[t].phase = "lookup"
                                             THEN "lookup_set"
                                             ELSE "save_set"]
    /\ UNCHANGED <<sessions, clock>>
    /\ ConcFrame

(* del self._sessions[key]; return None *)
T_GetDel(t) ==
    /\ thr[t].pc = "get_del"
    /\ LET key == SessionKey(thr[t].sid)
       IN  IF key \in DOMAIN sessions
           THEN /\ sessions' = Restrict(sessions, DOMAIN sessions \ {key})
                /\ Raise(t, "UnknownSession")
           ELSE /\ sessions' = sessions
                /\ Raise(t, "KeyError")
    /\ UNCHANGED clock
    /\ ConcFrame

T_LookupSet(t) ==
    /\ thr[t].pc = "lookup_set"
    /\ LET model == Loads(thr[t].entry.pickled_model)
       IN  /\ sessions' = StoreSet(sessions, SessionKey(thr[t].sid),
                              SessionValue(thr[t].entry.model_name, model,
                                           clock),
                              SESSION_TIMEOUT_SECONDS, clock)
           /\ thr' = [thr EXCEPT ![t].model = model,
                                 ![t].pc = "model_step"]
    /\ UNCHANGED clock
    /\ ConcFrame

T_ModelStep(t) ==
    /\ thr[t].pc = "model_step"
    /\ LET r == ModelStep(thr[t].model, thr[t].control_input,
                          thr[t].delta_time)
       IN  IF r.err # None
           THEN Raise(t, r.err)
           ELSE thr' = [thr EXCEPT ![t].model = r.model,
                                   ![t].pc = "get_read",
                                   ![t].phase = "save"]
    /\ UNCHANGED <<sessions, clock>>
    /\ ConcFrame

T_SaveSet(t) ==
    /\ thr[t].pc = "save_set"
    /\ sessions' = StoreSet(sessions, SessionKey(thr[t].sid),
                       SessionValue(thr[t].entry.model_name, thr[t].model,
                                    clock),
                       SESSION_TIMEOUT_SECONDS, clock)
    /\ thr' = [thr EXCEPT ![t].pc = "done",
                          ![t].ret = ModelGetState(thr[t].model)]
    /\ UNCHANGED clock
    /\ ConcFrame

NextConc ==
    \/ Tick
    \/ \E t \in Threads :
          \/ T_Call(t)
          \/ T_SweepBegin(t)
          \/ T_SweepRead(t)
          \/ T_SweepDelete(t)
          \/ T_GetRead(t)
          \/ T_GetDel(t)
          \/ T_LookupSet(t)
          \/ T_ModelStep(t)
          \/ T_SaveSet(t)

SpecConc == InitConc /\ [][NextConc]_vars

(* C1: once two concurrent step calls on one session have both returned,
   the stored history has grown by exactly 2 and the stored model is what
   the two steps give when run one after the other. *)
StepTwice(m, a, b) ==
    ModelStep(ModelStep(m, thr[a].control_input, thr[a].delta_time).model,
              thr[b].control_input, thr[b].delta_time).model

C1_NoLostUpdate ==
    (\A t \in Threads : thr[t].pc = "done" /\ thr[t].status = None)
    => /\ HasSession(sessions, SharedId)
       /\ LET m == StoredModel(sessions, SharedId)
              m0 == Construct(m.cls, << >>).model
          IN  /\ Len(m.history) = 2
              /\ m \in {StepTwice(m0, 1, 2), StepTwice(m0, 2, 1)}

(* C18: a step that found its session in the look-up completes its
   persist and the session stays in the store, whatever another caller's
   sweep does meanwhile (for as long as less than the timeout has passed
   since the step began). *)
C18_SweepSparesSessionsInUse ==
    \A t \in Threads :
        (/\ thr[t].pc = "done"
         /\ thr[t].phase = "save"
         /\ clock + TicksPerSecond < thr[t].now + TtlTicks)
        => /\ thr[t].status = None
           /\ HasSession(sessions, SharedId)

----------------------------------------------------------------------------
(* The disjoint-sessions specification: the same callers and steps as
   SpecConc, each caller running its step on a session of its own. *)

(* Caller t works on the t-th session created. *)
OwnSession(t) == t

InitDisjoint ==
    /\ registry = [n \in {"water_tank", "room_temperature"} |->
                      IF n = "water_tank" THEN "WaterTank"
                      ELSE "RoomTemperature"]
    /\ clock = 0
    /\ \E first \in ConcModelNames, second \in ConcModelNames :
          LET one == CreateSessionOp(<< >>, registry, 0, first, << >>, 0)
          IN  sessions = CreateSessionOp(one.sessions, registry, one.nextId,
                                         second, << >>, 0).sessions
    /\ nextId = Cardinality(Threads)
    /\ created = {OwnSession(t) : t \in Threads}
    /\ access = [i \in Ids |-> IF i \in created THEN 0 ELSE -1]
    /\ steps = [i \in Ids |-> 0]
    /\ opCount = Cardinality(Threads)
    /\ last = [op |-> "init", sid |-> 0, args |-> << >>, status |-> None,
               ret |-> None, at |-> 0, prev |-> -1, keys |-> {},
               drawn |-> 0, pre |-> None]
    /\ thr = [t \in Threads |-> [IdleThread EXCEPT !.sid = OwnSession(t)]]

SpecDisjoint == InitDisjoint /\ [][NextConc]_vars

(* C19: with every caller on a session of its own, a step that found its
   session and whose model call returned completes as it would alone: it
   returns the stepped state, and the session's stored model is the
   stepped model (for as long as less than the timeout has passed since
   the step began). *)
C19_DisjointSessionsDoNotInterfere ==
    \A t \in Threads :
        (/\ thr[t].pc = "done"
         /\ thr[t].phase = "save"
         /\ clock + TicksPerSecond < thr[t].now + TtlTicks)
        => /\ thr[t].status = None
           /\ thr[t].ret = ModelGetState(thr[t].model)
           /\ HasSession(sessions, thr[t].sid)
           /\ StoredModel(sessions, thr[t].sid) = thr[t].model

----------------------------------------------------------------------------
(* The caller's specification: one caller that keeps the objects the
   manager returns (the list of get_history or get_logs, the model of
   get_model) and changes them in place between manager calls.  thr holds
   the kept object: obj is its present value and shares names the places of
   the store that are the same Python object, so that a change made
   through the caller's reference is a change to them too. *)

NoObject ==
    [kind |-> "none", sid |-> 0, obj |-> << >>, shares |-> {}, calls |-> 0,
     at |-> -1]

(* Mutant: get_history and get_logs hand out the stored list itself. *)
ReturnedList_StoredList(session_id, field, items) ==
    [kind |-> "list", sid |-> session_id, obj |-> items,
     shares |-> {<<session_id, field>>}, calls |-> 0, at |-> -1]

(* list(model.history), list(model.logs): a new list, copied from the
   model pickle.loads built for this call; no entry of the store refers to
   it. *)
ReturnedList(session_id, field, items) ==
    [kind |-> "list", sid |-> session_id, obj |-> items, shares |-> {},
     calls |-> 0, at |-> -1]

(* get_model returns the object pickle.loads built; the store keeps
   pickle.dumps(model), bytes taken before the object is handed out. *)
ReturnedModel(session_id, model) ==
    [kind |-> "model", sid |-> session_id, obj |-> model, shares |-> {},
     calls |-> 0, at |-> -1]

(* A change of the caller's object seen through every place sharing it. *)
WriteThrough(S, shares, obj) ==
    [k \in DOMAIN S |->
        IF \E p \in shares : SessionKey(p[1]) = k
        THEN LET p == CHOOSE q \in shares : SessionKey(q[1]) = k
                 m == Loads(S[k].value.pickled_model)
                 m1 == IF p[2] = "model" THEN obj
                       ELSE [m EXCEPT ![p[2]] = obj]
             IN  [S[k] EXCEPT !.value.pickled_model = Dumps(m1)]
        ELSE S[k]]

ListEdits == {"append", "remove", "edit"}

(* lst.append(x), del lst[0], lst[0] = x *)
EditList(items, edit) ==
    IF edit = "append" THEN Append(items, Snap1)
    ELSE IF edit = "remove" THEN Tail(items)
    ELSE [items EXCEPT ![1] = Snap1]

InitCaller ==
    /\ registry = [n \in {"water_tank", "room_temperature"} |->
                      IF n = "water_tank" THEN "WaterTank"
                      ELSE "RoomTemperature"]
    /\ clock = 0
    /\ \E model_name \in ConcModelNames :
          sessions = CreateSessionOp(<< >>, registry, 0, model_name, << >>,
                                     0).sessions
    /\ nextId = 1
    /\ created = {SharedId}
    /\ access = [i \in Ids |-> IF i = SharedId THEN 0 ELSE -1]
    /\ steps = [i \in Ids |-> 0]
    /\ opCount = 0
    /\ last = [op |-> "init", sid |-> 0, args |-> << >>, status |-> None,
               ret |-> None, at |-> 0, prev |-> -1, keys |-> {},
               drawn |-> 0, pre |-> None]
    /\ thr = NoObject

(* A manager call whose return value the caller keeps. *)
CallerTake(op, session_id, out, object) ==
    /\ opCount < MaxOps
    /\ sessions' = out.sessions
    /\ opCount' = opCount + 1
    /\ access' = IF out.found THEN [access EXCEPT ![session_id] = clock]
                 ELSE access
    /\ last' = [op |-> op, sid |-> session_id, args |-> << >>,
                status |-> out.status, ret |-> out.ret, at |-> clock,
                prev |-> access[session_id],
                keys |-> DOMAIN sessions, drawn |-> nextId,
                pre |-> IF HasSession(sessions, session_id)
                        THEN StoredModel(sessions, session_id) ELSE None]
    /\ thr' = IF out.status = None THEN object ELSE thr
    /\ UNCHANGED <<registry, clock, nextId, created, steps>>

CallerGetHistory ==
    \E session_id \in Ids :
        LET out == GetHistoryOp(sessions, session_id, clock)
        IN  CallerTake("get_history", session_id, out,
                       ReturnedList(session_id, "history", out.ret))

CallerGetLogs ==
    \E session_id \in Ids :
        LET out == GetLogsOp(sessions, session_id, clock)
        IN  CallerTake("get_logs", session_id, out,
                       ReturnedList(session_id, "logs", out.ret))

CallerGetModel ==
    \E session_id \in Ids :
        LET g == GetModel(sessions, session_id, clock)
            out == Outcome(g.err, g.model, g.sessions, g.err = None)
        IN  CallerTake("get_model", session_id, out,
                       ReturnedModel(session_id, g.model))

CallerFrame ==
    UNCHANGED <<registry, clock, nextId, created, access, steps, opCount,
                last>>

CallerEditList ==
    /\ thr.kind = "list"
    /\ thr.calls < MaxOps
    /\ \E edit \in ListEdits :
          /\ edit = "append" \/ thr.obj # << >>
          /\ LET items == EditList(thr.obj, edit)
             IN  /\ thr' = [thr EXCEPT !.obj = items, !.calls = @ + 1,
                                       !.at = opCount]
                 /\ sessions' = WriteThrough(sessions, thr.shares, items)
    /\ CallerFrame

(* model.step(control_input, delta_time) on the object get_model returned *)
CallerStepModel ==
    /\ thr.kind = "model"
    /\ thr.calls < MaxOps
    /\ \E in \in StepInputs :
          LET r == ModelStep(thr.obj, in[1], in[2])
          IN  IF r.err # None
              THEN /\ thr' = [thr EXCEPT !.calls = @ + 1]
                   /\ sessions' = sessions
              ELSE /\ thr' = [thr EXCEPT !.obj = r.model, !.calls = @ + 1,
                                         !.at = opCount]
                   /\ sessions' = WriteThrough(sessions, thr.shares, r.model)
    /\ CallerFrame

NextCaller ==
    \/ Step
    \/ GetState
    \/ GetHistory
    \/ GetLogs
    \/ CallerGetHistory
    \/ CallerGetLogs
    \/ CallerGetModel
    \/ CallerEditList
    \/ CallerStepModel

SpecCaller == InitCaller /\ [][NextCaller]_vars

(* C13: appending to, removing from or editing a list returned by
   get_history or get_logs leaves what get_state, get_history and get_logs
   return for every session as it was. *)
C13_ReturnedListsAreIndependent ==
    [][(thr.kind = "list" /\ thr'.calls = thr.calls + 1)
       => \A b \in created : SameView(sessions, sessions', b, clock)]_vars

C13_Witness ==
    /\ thr.kind = "list"
    /\ thr.calls > 0
    /\ opCount > thr.at
    /\ last.op = "get_history"
    /\ last.sid = thr.sid
    /\ last.status = None
    /\ Len(last.ret) > 0
    /\ last.ret # thr.obj

(* C14: after the caller steps the object get_model returned, the next
   get_state of the manager on that session returns the stepped object's
   state. *)
C14_ReturnedModelIsTheSessionsModel ==
    [][(/\ thr.kind = "model"
        /\ thr.at = opCount
        /\ opCount' = opCount + 1
        /\ last'.op = "get_state"
        /\ last'.sid = thr.sid
        /\ last'.status = None)
       => last'.ret = ModelGetState(thr.obj)]_vars

----------------------------------------------------------------------------
(* The registry specification: the sequential manager with register_model,
   at one clock reading. *)

Classes == {"WaterTank", "RoomTemperature"}

(* Mutant: registering a class rebuilds the sessions created under the
   name with the new class. *)
RegisterModel_Retroactive ==
    \E name \in ModelNames, model_cls \in Classes :
        /\ opCount < MaxOps
        /\ registry' = [n \in DOMAIN registry \cup {name} |->
                           IF n = name THEN model_cls ELSE registry[n]]
        /\ opCount' = opCount + 1
        /\ last' = [op |-> "register_model", sid |-> 0,
                    args |-> <<name, model_cls>>, status |-> None,
                    ret |-> None, at |-> clock, prev |-> -1,
                    keys |-> DOMAIN sessions, drawn |-> nextId,
                    pre |-> None]
        /\ sessions' =
               [k \in DOMAIN sessions |->
                   IF sessions[k].value.model_name = name
                   THEN [sessions[k] EXCEPT !.value.pickled_model =
                            Dumps(Construct(model_cls, << >>).model)]
                   ELSE sessions[k]]
        /\ UNCHANGED <<clock, nextId, created, access, steps, thr>>

(* self._model_registry[name] = model_cls *)
RegisterModel ==
    \E name \in ModelNames, model_cls \in Classes :
        /\ opCount < MaxOps
        /\ registry' = [n \in DOMAIN registry \cup {name} |->
                           IF n = name THEN model_cls ELSE registry[n]]
        /\ opCount' = opCount + 1
        /\ last' = [op |-> "register_model", sid |-> 0,
                    args |-> <<name, model_cls>>, status |-> None,
                    ret |-> None, at |-> clock, prev |-> -1,
                    keys |-> DOMAIN sessions, drawn |-> nextId,
                    pre |-> None]
        /\ UNCHANGED <<sessions, clock, nextId, created, access, steps,
                       thr>>

NextRegistry ==
    \/ RegisterModel
    \/ CreateSession
    \/ Step
    \/ GetState
    \/ GetHistory
    \/ GetLogs
    \/ Reset
    \/ UpdateParams

SpecRegistry == Init /\ [][NextRegistry]_vars

(* C17: register_model succeeds, also for a name already registered, and
   leaves the store as it is; a create_session after it stores an instance
   of the class now registered under the name; a session created earlier
   keeps its class on every later operation, and its step is the step of
   that class. *)
C17_OverwriteAffectsOnlyNewSessions ==
    [][/\ (opCount' = opCount + 1 /\ last'.op = "register_model")
          => /\ last'.status = None
             /\ registry'[last'.args[1]] = last'.args[2]
             /\ sessions' = sessions
       /\ (/\ opCount' = opCount + 1
           /\ last'.op = "create_session"
           /\ last'.status = None)
          => /\ registry' = registry
             /\ StoredModel(sessions', last'.ret).cls
                   = registry[last'.args[1]]
       /\ (/\ opCount' = opCount + 1
           /\ last'.op \in SessionOps
           /\ last'.status = None)
          => /\ StoredModel(sessions', last'.sid).cls
                   = StoredModel(sessions, last'.sid).cls
             /\ last'.op = "step"
                => last'.ret =
                      ModelGetState(
                          ModelStep(StoredModel(sessions, last'.sid),
                                    last'.args[1], last'.args[2]).model)
      ]_vars

C17_Witness ==
    \E a \in created, b \in created :
        /\ a < b
        /\ HasSession(sessions, a)
        /\ HasSession(sessions, b)
        /\ sessions[SessionKey(a)].value.model_name
              = sessions[SessionKey(b)].value.model_name
        /\ StoredModel(sessions, a).cls # StoredModel(sessions, b).cls
        /\ last.op = "create_session"
        /\ last.ret = b

(* C22: the model name in a session's entry is the name given to the
   create_session that made the session, and no step, read, reset,
   update_params or register_model changes it. *)
C22_ModelNameNeverChanges ==
    [][/\ (/\ opCount' = opCount + 1
           /\ last'.op = "create_session"
           /\ last'.status = None)
          => sessions'[SessionKey(last'.ret)].value.model_name
                = last'.args[1]
       /\ \A k \in DOMAIN sessions \cap DOMAIN sessions' :
             sessions'[k].value.model_name = sessions[k].value.model_name
      ]_vars

C22_Witness ==
    /\ last.op \in MutatingOps
    /\ last.status = None
    /\ LET entry == sessions[SessionKey(last.sid)]
       IN  registry[entry.value.model_name]
              # Loads(entry.value.pickled_model).cls

----------------------------------------------------------------------------
(* The store specification: InMemorySessionStore on its own, with set, get
   and delete called on a few keys while the clock advances. *)

StoreKeys == {SessionKey(i) : i \in Ids}

StoreValues == {"first value", "second value"}

(* ex: none, or one second *)
StoreExpirations == {NoExpiry, 1}

(* Clock readings: 0 s, 0.25 s, 1 s, 1.25 s, 2 s *)
StoreInstants ==
    {0, 1, TicksPerSecond, TicksPerSecond + 1, 2 * TicksPerSecond}

InitStore ==
    /\ sessions = << >>
    /\ registry = << >>
    /\ clock = 0
    /\ nextId = 0
    /\ created = {}
    /\ access = [i \in Ids |-> -1]
    /\ steps = [i \in Ids |-> 0]
    /\ opCount = 0
    /\ last = [op |-> "init", sid |-> 0, args |-> << >>, status |-> None,
               ret |-> None, at |-> 0, prev |-> -1, keys |-> {},
               drawn |-> 0, pre |-> None]
    /\ thr = NoThreads

StoreFrame == UNCHANGED <<registry, nextId, created, access, steps, thr>>

StoreCall(op, args, status, ret, S) ==
    /\ opCount < MaxOps
    /\ sessions' = S
    /\ opCount' = opCount + 1
    /\ last' = [op |-> op, sid |-> 0, args |-> args, status |-> status,
                ret |-> ret, at |-> clock, prev |-> -1,
                keys |-> DOMAIN sessions, drawn |-> nextId, pre |-> None]
    /\ UNCHANGED clock
    /\ StoreFrame

StoreTick ==
    /\ opCount < MaxOps
    /\ \E i \in StoreInstants : i > clock /\ clock' = i
    /\ UNCHANGED <<sessions, opCount, last>>
    /\ StoreFrame

StoreSetCall ==
    \E key \in StoreKeys, value \in StoreValues, ex \in StoreExpirations :
        StoreCall("set", <<key, value, ex>>, None, None,
                  StoreSet(sessions, key, value, ex, clock))

StoreGetCall ==
    \E key \in StoreKeys :
        LET g == StoreGet(sessions, key, clock)
        IN  StoreCall("get", <<key>>,
                      IF g.found THEN "found" ELSE "absent", g.value,
                      g.sessions)

StoreDeleteCall ==
    \E key \in StoreKeys :
        StoreCall("delete", <<key>>, None, None, StoreDelete(sessions, key))

NextStore ==
    \/ StoreTick
    \/ StoreSetCall
    \/ StoreGetCall
    \/ StoreDeleteCall

SpecStore == InitStore /\ [][NextStore]_vars

(* C20: get on a key whose expiry has passed on the store's clock returns
   None, as for a key that was never set, and removes that entry and no
   other; get on a key that is set and not expired returns the stored
   value and removes nothing. *)
C20_GetEvictsExpiredEntry ==
    [][(opCount' = opCount + 1 /\ last'.op = "get")
       => LET key == last'.args[1]
              present == key \in DOMAIN sessions
              passed == /\ present
                        /\ sessions[key].ex # NoExpiry
                        /\ clock \div TicksPerSecond > sessions[key].expiry
          IN  /\ ~present
                 => /\ last'.status = "absent"
                    /\ last'.ret = None
                    /\ sessions' = sessions
              /\ passed
                 => /\ last'.status = "absent"
                    /\ last'.ret = None
                    /\ DOMAIN sessions' = DOMAIN sessions \ {key}
                    /\ \A k \in DOMAIN sessions' : sessions'[k] = sessions[k]
              /\ (present /\ ~passed)
                 => /\ last'.status = "found"
                    /\ last'.ret = sessions[key].value
                    /\ sessions' = sessions]_vars

C20_Witness ==
    /\ last.op = "get"
    /\ last.status = "absent"
    /\ last.args[1] \in last.keys
    /\ last.args[1] \notin DOMAIN sessions
    /\ sessions # << >>

----------------------------------------------------------------------------
(* The concurrent store specification: Threads callers, each making one
   call of InMemorySessionStore.set, get or delete on the same key,
   interleaved at the dictionary operations.  The store takes no lock. *)

StoreOps == {"set", "get", "delete"}

IdleStoreCaller ==
    [pc |-> "idle", op |-> "none", value |-> None, ex |-> NoExpiry,
     seen |-> None, status |-> None, ret |-> None, clobbered |-> FALSE]

InitStoreConc ==
    /\ sessions \in {<< >>,
                     StoreSet(<< >>, SessionKey(SharedId), "first value",
                              1, 0)}
    /\ registry = << >>
    /\ clock = 0
    /\ nextId = 0
    /\ created = {}
    /\ access = [i \in Ids |-> -1]
    /\ steps = [i \in Ids |-> 0]
    /\ opCount = 0
    /\ last = [op |-> "init", sid |-> 0, args |-> << >>, status |-> None,
               ret |-> None, at |-> 0, prev |-> -1, keys |-> {},
               drawn |-> 0, pre |-> None]
    /\ thr = [t \in Threads |-> IdleStoreCaller]

StoreConcFrame ==
    UNCHANGED <<registry, clock, nextId, created, access, steps, opCount,
                last>>

SC_Call(t) ==
    /\ thr[t].pc = "idle"
    /\ \E op \in StoreOps, value \in StoreValues, ex \in StoreExpirations :
          thr' = [thr EXCEPT ![t].op = op,
                             ![t].pc = op,
                             ![t].value = IF op = "set" THEN value ELSE None,
                             ![t].ex = IF op = "set" THEN ex ELSE NoExpiry]
    /\ UNCHANGED sessions
    /\ StoreConcFrame

(* self._sessions[key] = (value, ex, expiry): one dictionary assignment *)
SC_Set(t) ==
    /\ thr[t].pc = "set"
    /\ sessions' = StoreSet(sessions, SessionKey(SharedId), thr[t].value,
                            thr[t].ex, clock)
    /\ thr' = [thr EXCEPT ![t].pc = "done"]
    /\ StoreConcFrame

(* entry = self._sessions.get(key), and the expiry test on it *)
SC_GetRead(t) ==
    /\ thr[t].pc = "get"
    /\ LET key == SessionKey(SharedId)
       IN  IF key \notin DOMAIN sessions
           THEN thr' = [thr EXCEPT ![t].pc = "done"]
           ELSE IF StoreIsExpired(sessions[key], clock)
           THEN thr' = [thr EXCEPT ![t].pc = "get_del",
                                   ![t].seen = sessions[key]]
           ELSE thr' = [thr EXCEPT ![t].pc = "done",
                                   ![t].ret = sessions[key].value]
    /\ UNCHANGED sessions
    /\ StoreConcFrame

(* del self._sessions[key]; return None *)
SC_GetDel(t) ==
    /\ thr[t].pc = "get_del"
    /\ LET key == SessionKey(SharedId)
       IN  IF key \in DOMAIN sessions
           THEN /\ sessions' = Restrict(sessions, DOMAIN sessions \ {key})
                /\ thr' = [thr EXCEPT ![t].pc = "done",
                                      ![t].clobbered =
                                          sessions[key] # thr[t].seen]
           ELSE /\ sessions' = sessions
                /\ thr' = [thr EXCEPT ![t].pc = "done",
                                      ![t].status = "KeyError"]
    /\ StoreConcFrame

(* if key in self._sessions *)
SC_DeleteTest(t) ==
    /\ thr[t].pc = "delete"
    /\ thr' = [thr EXCEPT ![t].pc =
                  IF SessionKey(SharedId) \in DOMAIN sessions
                  THEN "delete_del" ELSE "done"]
    /\ UNCHANGED sessions
    /\ StoreConcFrame

(* del self._sessions[key] *)
SC_DeleteDel(t) ==
    /\ thr[t].pc = "delete_del"
    /\ LET key == SessionKey(SharedId)
       IN  IF key \in DOMAIN sessions
           THEN /\ sessions' = Restrict(sessions, DOMAIN sessions \ {key})
                /\ thr' = [thr EXCEPT ![t].pc = "done"]
           ELSE /\ sessions' = sessions
                /\ thr' = [thr EXCEPT ![t].pc = "done",
                                      ![t].status = "KeyError"]
    /\ StoreConcFrame

NextStoreConc ==
    \/ StoreTick
    \/ \E t \in Threads :
          \/ SC_Call(t)
          \/ SC_Set(t)
          \/ SC_GetRead(t)
          \/ SC_GetDel(t)
          \/ SC_DeleteTest(t)
          \/ SC_DeleteDel(t)

SpecStoreConc == InitStoreConc /\ [][NextStoreConc]_vars

(* C21: in every interleaving of set, get and delete on one key, a get
   that saw an expired entry removes that entry and never one a set wrote
   in between, and no get or delete ends in an error because the key was
   removed by another caller first. *)
C21_SetAtomicWithGetAndDelete ==
    \A t \in Threads :
        thr[t].pc = "done"
        => /\ thr[t].status = None
           /\ ~thr[t].clobbered

----------------------------------------------------------------------------
(* The external-store specification: the manager with persistence "redis".
   sessions is the server's keyspace, key -> (data, expire_at); the server
   expires a key ex seconds after it was set.  Every client call of an
   operation either reaches the server or raises ConnectionError;
   _cleanup_expired_sessions returns at once in this mode. *)

(* pickle.dumps(value) of the session tuple (model_name, pickled_model,
   now): its items in order. *)
DumpsTuple(value) ==
    <<value.model_name, value.pickled_model, value.last_access>>

(* pickle.loads(data), unpacked as model_name, pickled_model, _ = session *)
LoadsTuple(data) ==
    [model_name |-> data[1], pickled_model |-> data[2],
     last_access |-> data[3]]

RedisLive(R, key, t) ==
    /\ key \in DOMAIN R
    /\ R[key].expire_at = NoExpiry \/ t < R[key].expire_at

(* self._client.set(key, pickle.dumps(value), ex=ex) *)
RedisSet(R, key, value, ex, t, up) ==
    IF ~up THEN [err |-> "ConnectionError", store |-> R]
    ELSE [err |-> None,
          store |->
              [k \in DOMAIN R \cup {key} |->
                  IF k = key
                  THEN [data |-> DumpsTuple(value),
                        expire_at |-> IF ex = NoExpiry THEN NoExpiry
                                      ELSE t + ex * TicksPerSecond]
                  ELSE R[k]]]

(* Mutant: a failed client call is answered as a missing key. *)
RedisGet_ErrorAsNone(R, key, t, up) ==
    IF ~up THEN [err |-> None, found |-> FALSE, value |-> None]
    ELSE IF ~RedisLive(R, key, t)
    THEN [err |-> None, found |-> FALSE, value |-> None]
    ELSE [err |-> None, found |-> TRUE, value |-> LoadsTuple(R[key].data)]

(* data = self._client.get(key); None if data is None, else
   pickle.loads(data) *)
RedisGet(R, key, t, up) ==
    IF ~up THEN [err |-> "ConnectionError", found |-> FALSE, value |-> None]
    ELSE IF ~RedisLive(R, key, t)
    THEN [err |-> None, found |-> FALSE, value |-> None]
    ELSE [err |-> None, found |-> TRUE, value |-> LoadsTuple(R[key].data)]

(* The client calls of one operation, in order: get and set of get_model,
   then, in a mutating operation, get and set of _save_model.  fail_at
   names the first that cannot reach the server, 0 when all do. *)
FailPoints(op) == IF op \in ReadOps THEN 0 .. 2 ELSE 0 .. 4

ModelCall(op, model, args) ==
    IF op = "step" THEN ModelStep(model, args[1], args[2])
    ELSE IF op = "reset" THEN ModelReset(model, args[1])
    ELSE ModelUpdateParams(model, args[1])

ReadResult(op, model) ==
    IF op = "get_state" THEN ModelGetState(model)
    ELSE IF op = "get_history" THEN model.history
    ELSE model.logs

RedisStoredModel(R, session_id) ==
    Loads(LoadsTuple(R[SessionKey(session_id)].data).pickled_model)

(* step, reset, update_params, get_state, get_history, get_logs with the
   external store *)
RedisPerform(op, R, session_id, args, t, fail_at) ==
    LET key == SessionKey(session_id)
        g == RedisGet(R, key, t, fail_at # 1)
    IN  IF g.err # None THEN Outcome(g.err, None, R, FALSE)
        ELSE IF ~g.found THEN Outcome("UnknownSession", None, R, FALSE)
        ELSE
        LET model == Loads(g.value.pickled_model)
            s1 == RedisSet(R, key,
                           SessionValue(g.value.model_name, model, t),
                           SESSION_TIMEOUT_SECONDS, t, fail_at # 2)
        IN  IF s1.err # None THEN Outcome(s1.err, None, s1.store, TRUE)
            ELSE IF op \in ReadOps
            THEN Outcome(None, ReadResult(op, model), s1.store, TRUE)
            ELSE
            LET r == ModelCall(op, model, args)
                g2 == RedisGet(s1.store, key, t, fail_at # 3)
            IN  IF r.err # None THEN Outcome(r.err, None, s1.store, TRUE)
                ELSE IF g2.err # None
                THEN Outcome(g2.err, None, s1.store, TRUE)
                ELSE IF ~g2.found
                THEN Outcome("UnknownSession", None, s1.store, TRUE)
                ELSE
                LET s2 == RedisSet(s1.store, key,
                                   SessionValue(g2.value.model_name,
                                                r.model, t),
                                   SESSION_TIMEOUT_SECONDS, t, fail_at # 4)
                IN  IF s2.err # None
                    THEN Outcome(s2.err, None, s2.store, TRUE)
                    ELSE Outcome(None, ModelGetState(r.model), s2.store,
                                 TRUE)

(* Arguments of the calls made against the external store *)
ArgsOf(op) ==
    IF op = "step" THEN {<<10 * Fix, Fix>>, <<10 * Fix, 0>>}
    ELSE IF op = "reset" THEN {<< << >> >>}
    ELSE IF op = "update_params" THEN {<<[capacity |-> 50 * Fix]>>}
    ELSE {<< >>}

RedisCreateSession ==
    \E model_name \in ConcModelNames, up \in BOOLEAN :
        LET c == Construct(registry[model_name], << >>)
            session_id == nextId + 1
            st == RedisSet(sessions, SessionKey(session_id),
                           SessionValue(model_name, c.model, clock),
                           SESSION_TIMEOUT_SECONDS, clock, up)
        IN  /\ opCount < MaxOps
            /\ nextId < MaxSessions
            /\ sessions' = st.store
            /\ nextId' = session_id
            /\ opCount' = opCount + 1
            /\ created' = IF st.err = None
                          THEN created \cup {session_id} ELSE created
            /\ access' = IF st.err = None
                         THEN [access EXCEPT ![session_id] = clock]
                         ELSE access
            /\ last' = [op |-> "create_session", sid |-> session_id,
                        args |-> <<model_name, << >> >>,
                        status |-> st.err, ret |-> None,
                        at |-> clock, prev |-> -1,
                        keys |-> DOMAIN sessions, drawn |-> nextId,
                        pre |-> None, fail |-> 0, live |-> FALSE]
            /\ UNCHANGED <<registry, clock, steps, thr>>

RedisCall ==
    \E op \in SessionOps, session_id \in Ids :
        \E args \in ArgsOf(op), fail_at \in FailPoints(op) :
            LET out == RedisPerform(op, sessions, session_id, args, clock,
                                    fail_at)
                live == RedisLive(sessions, SessionKey(session_id), clock)
            IN  /\ opCount < MaxOps
                /\ sessions' = out.sessions
                /\ opCount' = opCount + 1
                /\ access' = IF out.found
                             THEN [access EXCEPT ![session_id] = clock]
                             ELSE access
                /\ last' = [op |-> op, sid |-> session_id, args |-> args,
                            status |-> out.status, ret |-> out.ret,
                            at |-> clock, prev |-> access[session_id],
                            keys |-> DOMAIN sessions, drawn |-> nextId,
                            pre |-> IF live
                                    THEN RedisStoredModel(sessions,
                                                          session_id)
                                    ELSE None,
                            fail |-> fail_at, live |-> live]
                /\ UNCHANGED <<registry, clock, nextId, created, steps, thr>>

NextRedis ==
    \/ Advance
    \/ RedisCreateSession
    \/ RedisCall

SpecRedis == Init /\ [][NextRedis]_vars

(* C24: when the external store cannot be reached during an operation on an
   existing session, the operation ends in a storage failure; it is never
   reported as an unknown session.  A model call that is rejected is not
   saved, so its operation never reaches the client calls of the save. *)
C24_UnreachableStoreIsStorageFailure ==
    (last.op \in SessionOps /\ last.live /\ last.fail > 0)
    => /\ last.status # "UnknownSession"
       /\ \/ last.status = "ConnectionError"
          \/ last.fail > 2 /\ last.status = "InvalidTimeStep"

C24_Witness ==
    /\ last.op \in SessionOps
    /\ last.live
    /\ last.fail = 1
    /\ last.status = "ConnectionError"

(* C25: a model written to the store with a non-empty history and log and
   read back by the next look-up has the state, history and logs it was
   written with, through the external store and through the in-memory
   store alike. *)
C25_StoredModelRoundTrips ==
    (last.op \in MutatingOps /\ last.status = None)
    => LET written == ModelCall(last.op, last.pre, last.args).model
           key == SessionKey(last.sid)
           name == LoadsTuple(sessions[key].data).model_name
           external ==
               Loads(RedisGet(sessions, key, last.at, TRUE)
                         .value.pickled_model)
           memory ==
               GetModel(StoreSet(<< >>, key,
                                 SessionValue(name, written, last.at),
                                 SESSION_TIMEOUT_SECONDS, last.at),
                        last.sid, last.at).model
       IN  \A looked \in {external, memory} :
               /\ ModelGetState(looked) = ModelGetState(written)
               /\ looked.history = written.history
               /\ looked.logs = written.logs

C25_Witness ==
    /\ last.op = "step"
    /\ last.status = None
    /\ Len(last.pre.history) > 0
    /\ Len(last.pre.logs) > 0
    /\ Len(RedisStoredModel(sessions, last.sid).history)
           = Len(last.pre.history) + 1

----------------------------------------------------------------------------
(* The construction specification: create_session with constructor
   arguments a model class may refuse. *)

TankCapacities == {50 * Fix, 1, 0, -5 * Fix}

ConstructorParams ==
    {<< >>} \cup {[capacity |-> c] : c \in TankCapacities}

CreateWithParams ==
    \E model_name \in ModelNames, params \in ConstructorParams :
        LET out == CreateSessionOp(sessions, registry, nextId, model_name,
                                   params, clock)
        IN  /\ opCount < MaxOps
            /\ nextId < MaxSessions
            /\ sessions' = out.sessions
            /\ nextId' = out.nextId
            /\ opCount' = opCount + 1
            /\ created' = IF out.status = None
                          THEN created \cup {out.ret} ELSE created
            /\ access' = IF out.status = None
                         THEN [access EXCEPT ![out.ret] = clock] ELSE access
            /\ last' = [op |-> "create_session", sid |-> out.nextId,
                        args |-> <<model_name, params>>,
                        status |-> out.status, ret |-> out.ret,
                        at |-> clock, prev |-> -1,
                        keys |-> DOMAIN sessions, drawn |-> nextId,
                        pre |-> None]
            /\ UNCHANGED <<registry, clock, steps, thr>>

NextConstruct ==
    \/ Advance
    \/ CreateWithParams

SpecConstruct == Init /\ [][NextConstruct]_vars

(* C26: create_session for a water tank with capacity <= 0 fails with a
   construction error, returns no identifier and stores no entry. *)
C26_NonPositiveCapacityRefused ==
    [][(/\ last'.op = "create_session"
        /\ opCount' = opCount + 1
        /\ last'.args[1] = "water_tank"
        /\ "capacity" \in DOMAIN last'.args[2]
        /\ last'.args[2].capacity <= 0)
       => /\ last'.status = "ConstructionError"
          /\ nextId' = nextId
          /\ created' = created
          /\ DOMAIN sessions' \subseteq DOMAIN sessions]_vars

C26_Witness ==
    /\ last.op = "create_session"
    /\ last.args[1] = "water_tank"
    /\ "capacity" \in DOMAIN last.args[2]
    /\ last.args[2].capacity <= 0
    /\ last.status = "ConstructionError"
    /\ DOMAIN sessions # {}

----------------------------------------------------------------------------
(* Parameter updates *)

(* The parameters the update_params docstrings name *)
ModelParameters(cls) ==
    IF cls = "WaterTank" THEN {"capacity", "inflow", "outflow_coeff"}
    ELSE {"initial_temp"}

(* The attribute that holds a parameter *)
ParameterAttr(cls, k) ==
    IF cls = "RoomTemperature" /\ k = "initial_temp" THEN "temp" ELSE k

(* C27: a successful update_params changes only the model parameters its
   mapping names, and leaves the session's history exactly as it was. *)
C27_UpdateChangesOnlyNamedParameters ==
    (last.op = "update_params" /\ last.status = None)
    => LET m == StoredModel(sessions, last.sid)
           named == {ParameterAttr(m.cls, k) :
                        k \in DOMAIN last.args[1]
                              \cap ModelParameters(m.cls)}
       IN  /\ m.history = last.pre.history
           /\ \A f \in DOMAIN m \ {"logs"} :
                  m[f] # last.pre[f] => f \in named

----------------------------------------------------------------------------
(* The HTTP application of main.py.  A request is a method, a path (its
   segments), a query string and a JSON body; the application answers it
   with the first route, in the order the routers were included, whose
   method and path match.  thr holds the systems dictionary of
   routers/simulate.py. *)

PathParam == "{}"

Route(method, pattern, endpoint) ==
    [method |-> method, pattern |-> pattern, endpoint |-> endpoint]

(* app.include_router(simulate.router), (state.router), (control.router),
   (simulation_router.router) *)
Routes ==
    << Route("POST", <<"simulate", PathParam>>, "simulate"),
       Route("GET", <<"state", PathParam>>, "state.get_state"),
       Route("POST", <<"control", PathParam>>, "apply_control"),
       Route("POST", <<"simulate", "init">>, "init_simulation"),
       Route("POST", <<"simulate", "step">>, "step_simulation"),
       Route("GET", <<"simulate", "state", PathParam>>, "get_state"),
       Route("GET", <<"simulate", "history", PathParam>>, "get_history"),
       Route("GET", <<"simulate", "logs", PathParam>>, "get_logs"),
       Route("POST", <<"simulate", "reset">>, "reset_simulation"),
       Route("PATCH", <<"simulate", "params">>, "update_params") >>

PathMatches(pattern, path) ==
    /\ Len(pattern) = Len(path)
    /\ \A i \in DOMAIN pattern :
           pattern[i] = PathParam \/ pattern[i] = path[i]

(* The endpoint a request is routed to: the first full match; 405 when only
   the path matches some route, 404 when nothing does. *)
Endpoint(method, path) ==
    LET partial == {i \in DOMAIN Routes :
                       PathMatches(Routes[i].pattern, path)}
        full == {i \in partial : Routes[i].method = method}
    IN  IF full # {}
        THEN Routes[CHOOSE i \in full : \A j \in full : i <= j].endpoint
        ELSE IF partial # {} THEN "MethodNotAllowed"
        ELSE "NotFound"

(* UUID path and body fields: the text of an identifier and its reading *)
IdText(session_id) == ToString(session_id)

IsIdText(text) == \E i \in 1 .. (MaxSessions + 1) : IdText(i) = text

ParseId(text) == CHOOSE i \in 1 .. (MaxSessions + 1) : IdText(i) = text

Request(method, path, query, json) ==
    [method |-> method, path |-> path, query |-> query, json |-> json]

NoQuery == << >>

NoJson == << >>

LifecycleRequests(session_id) ==
    { Request("POST", <<"simulate", "step">>, NoQuery,
              [session_id |-> IdText(session_id),
               control_input |-> 5 * Fix, delta_time |-> Fix]),
      Request("GET", <<"simulate", "state", IdText(session_id)>>, NoQuery,
              NoJson),
      Request("GET", <<"simulate", "history", IdText(session_id)>>,
              NoQuery, NoJson),
      Request("GET", <<"simulate", "logs", IdText(session_id)>>, NoQuery,
              NoJson),
      Request("POST", <<"simulate", "reset">>, NoQuery,
              [session_id |-> IdText(session_id),
               params |-> [capacity |-> 200 * Fix]]),
      Request("PATCH", <<"simulate", "params">>, NoQuery,
              [session_id |-> IdText(session_id),
               params |-> [inflow |-> 10 * Fix]]) }

InitRequest(model_name) ==
    Request("POST", <<"simulate", "init">>, NoQuery,
            [model_name |-> model_name])

Requests ==
    {InitRequest(n) : n \in {"water_tank", "unregistered_name"}}
    \cup UNION {LifecycleRequests(i) : i \in Ids}
    \cup {Request("POST", <<"simulate", n>>, [control_input |-> 5 * Fix],
                  NoJson) : n \in {"water_tank", "init"}}
    \cup {Request("POST", <<"control", "water_tank">>,
                  [control_input |-> -5 * Fix], NoJson),
          Request("GET", <<"state", "water_tank">>, NoQuery, NoJson),
          Request("GET", <<"simulate", "init">>, NoQuery, NoJson),
          Request("GET", <<"health">>, NoQuery, NoJson)}

Response(endpoint, code, status, ret, S, n, systems) ==
    [endpoint |-> endpoint, code |-> code, status |-> status, ret |-> ret,
     sessions |-> S, nextId |-> n, systems |-> systems]

(* except ValueError as error: raise HTTPException(status_code=...); any
   other exception is answered 500. *)
StatusCode(endpoint, status) ==
    IF status = None THEN 200
    ELSE IF status = "TypeError" THEN 500
    ELSE IF endpoint = "init_simulation" THEN 400
    ELSE 404

(* get_system(system_name) *)
GetSystem(system_name) ==
    IF system_name = "water_tank" THEN WaterTankInit(<< >>)
    ELSE IF system_name = "room_temp" THEN RoomTemperatureInit(<< >>)
    ELSE ModelResult("UnknownSystem", None)

(* routers/simulate.py simulate and routers/control.py apply_control *)
SystemEndpoint(endpoint, req, S, n, systems) ==
    LET name == req.path[2]
    IN  IF "control_input" \notin DOMAIN req.query
        THEN Response(endpoint, 422, "ValidationError", None, S, n, systems)
        ELSE IF name \notin DOMAIN systems /\ endpoint = "apply_control"
        THEN Response(endpoint, 200, None, None, S, n, systems)
        ELSE
        LET made == IF name \in DOMAIN systems
                    THEN ModelResult(None, systems[name])
                    ELSE GetSystem(name)
        IN  IF made.err # None
            THEN Response(endpoint, 500, made.err, None, S, n, systems)
            ELSE
            LET r == ModelStep(made.model, req.query.control_input, Fix)
                held == [k \in DOMAIN systems \cup {name} |->
                            IF k = name THEN made.model ELSE systems[k]]
            IN  IF r.err # None
                THEN Response(endpoint, 500, r.err, None, S, n, held)
                ELSE Response(endpoint, 200, None, ModelGetState(r.model),
                              S, n,
                              [held EXCEPT ![name] = r.model])

SessionOpOf(endpoint) ==
    IF endpoint = "step_simulation" THEN "step"
    ELSE IF endpoint = "reset_simulation" THEN "reset"
    ELSE endpoint

SessionArgsOf(endpoint, req) ==
    IF endpoint = "step_simulation"
    THEN <<req.json.control_input, req.json.delta_time>>
    ELSE IF endpoint \in {"reset_simulation", "update_params"}
    THEN <<req.json.params>>
    ELSE << >>

(* routers/simulation.py: the endpoints over its SimulationManager *)
SessionEndpoint(endpoint, req, S, reg, n, systems, t) ==
    IF endpoint = "init_simulation"
    THEN IF "model_name" \notin DOMAIN req.json
         THEN Response(endpoint, 422, "ValidationError", None, S, n, systems)
         ELSE LET out == CreateSessionOp(S, reg, n, req.json.model_name,
                                         << >>, t)
              IN  Response(endpoint, StatusCode(endpoint, out.status),
                           out.status, out.ret, out.sessions, out.nextId,
                           systems)
    ELSE
    LET text == IF endpoint \in {"get_state", "get_history", "get_logs"}
                THEN req.path[3]
                ELSE IF "session_id" \in DOMAIN req.json
                THEN req.json.session_id
                ELSE "missing"
    IN  IF ~IsIdText(text)
        THEN Response(endpoint, 422, "ValidationError", None, S, n, systems)
        ELSE LET out == Perform(SessionOpOf(endpoint), S, ParseId(text),
                                SessionArgsOf(endpoint, req), t)
             IN  Response(endpoint, StatusCode(endpoint, out.status),
                          out.status, out.ret, out.sessions, n, systems)

Respond(req, S, reg, n, systems, t) ==
    LET endpoint == Endpoint(req.method, req.path)
    IN  IF endpoint = "NotFound"
        THEN Response(endpoint, 404, "NotFound", None, S, n, systems)
        ELSE IF endpoint = "MethodNotAllowed"
        THEN Response(endpoint, 405, "MethodNotAllowed", None, S, n, systems)
        ELSE IF endpoint = "state.get_state"
        THEN Response(endpoint, 200, None, None, S, n, systems)
        ELSE IF endpoint \in {"simulate", "apply_control"}
        THEN SystemEndpoint(endpoint, req, S, n, systems)
        ELSE SessionEndpoint(endpoint, req, S, reg, n, systems, t)

(* from app.services.sim_manager_instance import sim_manager: the manager
   main.py registers the models with is the router's manager, or another
   SimulationManager. *)
SimManagerInstance == {"the router's sim_manager", "another manager"}

RouterRegistry(instance) ==
    IF instance = "the router's sim_manager"
    THEN [n \in {"water_tank", "room_temperature"} |->
             IF n = "water_tank" THEN "WaterTank" ELSE "RoomTemperature"]
    ELSE << >>

InitHttp ==
    /\ sessions = << >>
    /\ \E instance \in SimManagerInstance :
           registry = RouterRegistry(instance)
    /\ clock = 0
    /\ nextId = 0
    /\ created = {}
    /\ access = [i \in Ids |-> -1]
    /\ steps = [i \in Ids |-> 0]
    /\ opCount = 0
    /\ last = [op |-> "init", request |-> Request("", << >>, NoQuery, NoJson),
               endpoint |-> "", code |-> 0, status |-> None, at |-> 0]
    /\ thr = << >>

HttpRequest ==
    \E req \in Requests :
        LET res == Respond(req, sessions, registry, nextId, thr, clock)
        IN  /\ opCount < MaxOps
            /\ res.status = None /\ res.endpoint = "init_simulation"
               => nextId < MaxSessions
            /\ sessions' = res.sessions
            /\ nextId' = res.nextId
            /\ thr' = res.systems
            /\ opCount' = opCount + 1
            /\ created' = IF res.endpoint = "init_simulation"
                             /\ res.status = None
                          THEN created \cup {res.ret} ELSE created
            /\ last' = [op |-> "request", request |-> req,
                        endpoint |-> res.endpoint, code |-> res.code,
                        status |-> res.status, at |-> clock]
            /\ UNCHANGED <<registry, clock, access, steps>>

HttpTick ==
    /\ opCount < MaxOps
    /\ clock' = clock + TicksPerSecond
    /\ clock' <= MaxOps * TicksPerSecond
    /\ UNCHANGED <<sessions, registry, nextId, created, access, steps,
                   opCount, last, thr>>

NextHttp ==
    \/ HttpRequest
    \/ HttpTick

SpecHttp == InitHttp /\ [][NextHttp]_vars

(* C28: POST /simulate/init with model_name "water_tank" is handled by the
   session-initialisation endpoint and answers 200, and the session
   requests that follow for the identifier it returned answer 200. *)
C28_LifecycleAnswers200 ==
    /\ last.request = InitRequest("water_tank")
       => /\ last.endpoint = "init_simulation"
          /\ last.code = 200
    /\ \A i \in created :
           last.request \in LifecycleRequests(i) => last.code = 200

----------------------------------------------------------------------------
(* The expiry sweep *)

AllOps == SessionOps \cup {"create_session"}

(* The instant an entry expires at: its expiry is in whole seconds. *)
ExpiryInstant(entry) == entry.expiry * TicksPerSecond

(* C29: when a manager operation returns or fails, the store holds no
   entry whose expiry instant is earlier than the time the call began,
   whichever session the call was about. *)
C29_NoStaleEntryAfterCall ==
    last.op \in AllOps
    => \A k \in DOMAIN sessions :
           sessions[k].expiry # NoExpiry
           => ExpiryInstant(sessions[k]) >= last.at

C29_Witness ==
    /\ last.op \in AllOps
    /\ \E k \in last.keys \ DOMAIN sessions : k # SessionKey(last.sid)
    /\ DOMAIN sessions # {}

----------------------------------------------------------------------------
(* The water tank specification: sessions of a water tank driven through
   the manager with capacities near the levels a step reaches. *)

SmallCapacity == [capacity |-> 5 * Fix]

TankArgs(op) ==
    IF op = "step" THEN {<<10 * Fix, Fix>>, <<-5 * Fix, Fix>>}
    ELSE IF op = "reset" THEN {<< << >> >>, <<SmallCapacity>>}
    ELSE {<<SmallCapacity>>, <<[inflow |-> 10 * Fix]>>}

TankCreate ==
    \E params \in {<< >>, SmallCapacity} :
        LET out == CreateSessionOp(sessions, registry, nextId, "water_tank",
                                   params, clock)
        IN  /\ opCount < MaxOps
            /\ nextId < MaxSessions
            /\ sessions' = out.sessions
            /\ nextId' = out.nextId
            /\ opCount' = opCount + 1
            /\ created' = created \cup {out.ret}
            /\ access' = [access EXCEPT ![out.ret] = clock]
            /\ last' = [op |-> "create_session", sid |-> out.nextId,
                        args |-> <<"water_tank", params>>,
                        status |-> out.status, ret |-> out.ret,
                        at |-> clock, prev |-> -1,
                        keys |-> DOMAIN sessions, drawn |-> nextId,
                        pre |-> None]
            /\ UNCHANGED <<registry, clock, steps, thr>>

TankCall ==
    \E op \in MutatingOps, session_id \in Ids :
        \E args \in TankArgs(op) :
            SessionCall(op, session_id, args,
                        Perform(op, sessions, session_id, args, clock))

NextTank ==
    \/ TankCreate
    \/ TankCall

SpecTank == Init /\ [][NextTank]_vars

(* C30: after any sequence of create_session, step, reset and
   update_params calls on a water tank session, the persisted level
   satisfies 0 <= level <= capacity. *)
C30_LevelWithinCapacity ==
    \A i \in created :
        HasSession(sessions, i)
        => LET m == StoredModel(sessions, i)
           IN  0 <= m.level /\ m.level <= m.capacity

----------------------------------------------------------------------------
(* The expiry specification: calls made one at a time, with thr the set of
   identifiers on which an operation has failed as an unknown session
   after they were created. *)

InitExpiry ==
    /\ sessions = << >>
    /\ registry = [n \in {"water_tank", "room_temperature"} |->
                      IF n = "water_tank" THEN "WaterTank"
                      ELSE "RoomTemperature"]
    /\ clock = 0
    /\ nextId = 0
    /\ created = {}
    /\ access = [i \in Ids |-> -1]
    /\ steps = [i \in Ids |-> 0]
    /\ opCount = 0
    /\ last = [op |-> "init", sid |-> 0, args |-> << >>, status |-> None,
               at |-> 0, failed |-> {}]
    /\ thr = {}

ExpiryTick ==
    /\ opCount < MaxOps
    /\ \E t \in Instants : t > clock /\ clock' = t
    /\ UNCHANGED <<sessions, registry, nextId, created, access, steps,
                   opCount, last, thr>>

ExpiryCreate ==
    \E model_name \in ConcModelNames :
        LET out == CreateSessionOp(sessions, registry, nextId, model_name,
                                   << >>, clock)
        IN  /\ opCount < MaxOps
            /\ nextId < MaxSessions
            /\ out.ret \in Ids
            /\ sessions' = out.sessions
            /\ nextId' = out.nextId
            /\ opCount' = opCount + 1
            /\ created' = created \cup {out.ret}
            /\ access' = [access EXCEPT ![out.ret] = clock]
            /\ last' = [op |-> "create_session", sid |-> out.ret,
                        args |-> <<model_name, << >> >>,
                        status |-> out.status, at |-> clock,
                        failed |-> thr]
            /\ UNCHANGED <<registry, clock, steps, thr>>

ExpiryCall ==
    \E op \in SessionOps, session_id \in Ids :
        \E args \in ArgsOf(op) :
            LET out == Perform(op, sessions, session_id, args, clock)
            IN  /\ opCount < MaxOps
                /\ sessions' = out.sessions
                /\ opCount' = opCount + 1
                /\ access' = IF out.found
                             THEN [access EXCEPT ![session_id] = clock]
                             ELSE access
                /\ thr' = IF out.status = "UnknownSession"
                             /\ session_id \in created
                          THEN thr \cup {session_id} ELSE thr
                /\ last' = [op |-> op, sid |-> session_id, args |-> args,
                            status |-> out.status, at |-> clock,
                            failed |-> thr]
                /\ UNCHANGED <<registry, clock, nextId, created, steps>>

NextExpiry ==
    \/ ExpiryTick
    \/ ExpiryCreate
    \/ ExpiryCall

SpecExpiry == InitExpiry /\ [][NextExpiry]_vars

(* C31: once an operation on a created session has failed as an unknown
   session, every later operation on that identifier fails the same way
   and the store never again holds an entry for it. *)
C31_ExpiredIsAbsorbing ==
    /\ \A i \in thr : ~HasSession(sessions, i)
    /\ (last.op \in SessionOps /\ last.sid \in last.failed)
       => last.status = "UnknownSession"

C31_Witness ==
    /\ last.op \in SessionOps
    /\ last.sid \in last.failed
    /\ last.status = "UnknownSession"
    /\ last.at > TtlTicks

----------------------------------------------------------------------------
(* The capacity specification: sessions created, reset and reconfigured
   with the capacities a constructor may refuse. *)

CapacityCall ==
    \E op \in {"reset", "update_params"}, session_id \in Ids :
        \E params \in ConstructorParams :
            SessionCall(op, session_id, <<params>>,
                        Perform(op, sessions, session_id, <<params>>, clock))

NextCapacity ==
    \/ CreateWithParams
    \/ CapacityCall

SpecCapacity == Init /\ [][NextCapacity]_vars

(* C32: every persisted water tank session has capacity > 0, after
   create_session and after any reset or update_params. *)
C32_StoredCapacityPositive ==
    \A i \in created :
        (HasSession(sessions, i)
         /\ StoredModel(sessions, i).cls = "WaterTank")
        => StoredModel(sessions, i).capacity > 0

----------------------------------------------------------------------------
(* The read-back specification: calls made one at a time, with thr the
   snapshot returned by the last operation on each session when that
   operation was a successful step, reset or update_params. *)

InitReadBack ==
    /\ sessions = << >>
    /\ registry = [n \in {"water_tank", "room_temperature"} |->
                      IF n = "water_tank" THEN "WaterTank"
                      ELSE "RoomTemperature"]
    /\ clock = 0
    /\ nextId = 0
    /\ created = {}
    /\ access = [i \in Ids |-> -1]
    /\ steps = [i \in Ids |-> 0]
    /\ opCount = 0
    /\ last = [op |-> "init", sid |-> 0, args |-> << >>, status |-> None,
               ret |-> None, at |-> 0, written |-> << >>]
    /\ thr = << >>

ReadBackCreate ==
    \E model_name \in ConcModelNames :
        LET out == CreateSessionOp(sessions, registry, nextId, model_name,
                                   << >>, clock)
        IN  /\ opCount < MaxOps
            /\ nextId < MaxSessions
            /\ sessions' = out.sessions
            /\ nextId' = out.nextId
            /\ opCount' = opCount + 1
            /\ created' = created \cup {out.ret}
            /\ access' = [access EXCEPT ![out.ret] = clock]
            /\ last' = [op |-> "create_session", sid |-> out.ret,
                        args |-> <<model_name, << >> >>,
                        status |-> out.status, ret |-> out.ret,
                        at |-> clock, written |-> thr]
            /\ UNCHANGED <<registry, clock, steps, thr>>

ReadBackCall ==
    \E op \in MutatingOps \cup {"get_state"}, session_id \in Ids :
        \E args \in ArgsOf(op) :
            LET out == Perform(op, sessions, session_id, args, clock)
                others == DOMAIN thr \ {session_id}
            IN  /\ opCount < MaxOps
                /\ sessions' = out.sessions
                /\ opCount' = opCount + 1
                /\ access' = IF out.found
                             THEN [access EXCEPT ![session_id] = clock]
                             ELSE access
                /\ thr' = IF op \in MutatingOps /\ out.status = None
                          THEN [i \in others \cup {session_id} |->
                                   IF i = session_id THEN out.ret
                                   ELSE thr[i]]
                          ELSE [i \in others |-> thr[i]]
                /\ last' = [op |-> op, sid |-> session_id, args |-> args,
                            status |-> out.status, ret |-> out.ret,
                            at |-> clock, written |-> thr]
                /\ UNCHANGED <<registry, clock, nextId, created, steps>>

NextReadBack ==
    \/ Advance
    \/ ReadBackCreate
    \/ ReadBackCall

SpecReadBack == InitReadBack /\ [][NextReadBack]_vars

(* C33: the snapshot a successful get_state returns equals the snapshot
   returned by the successful step, reset or update_params that was the
   last operation on the same session before it. *)
C33_ReadYourWrites ==
    (/\ last.op = "get_state"
     /\ last.status = None
     /\ last.sid \in DOMAIN last.written)
    => last.ret = last.written[last.sid]

C33_Witness ==
    /\ last.op = "get_state"
    /\ last.status = None
    /\ last.sid \in DOMAIN last.written
    /\ "level" \in DOMAIN last.ret
    /\ last.ret.level > 0

----------------------------------------------------------------------------
(* C34: in every interleaving of concurrent callers of step, get_model and
   _save_model write an entry only under a key the store holds at the
   moment of the write: no step of a caller adds a key to the store. *)
C34_InFlightCallNeverRecreates ==
    [][DOMAIN sessions' \subseteq DOMAIN sessions]_vars

====
